---- MODULE Spec2Model ----
(***************************************************************************)
(* The two-phase meet-in-the-middle search of haraka.cpp: search() starts  *)
(* four populatetable threads, joins them, starts four bwdsearch threads   *)
(* and joins them.  The threads share the table fwdvecs and the mutex mtx. *)
(*                                                                         *)
(* The evaluators computefwd, computebwd and compute_x0_pix0_from_choices  *)
(* are called by the engine as pure functions of the degrees of freedom.   *)
(* Their 32-bit results cannot collide on a range short enough to          *)
(* enumerate, so the values they return on the indices of a run are drawn  *)
(* in Init from sets of result tables with few distinct fingerprints, in   *)
(* which full matches, shared shards with a different 4th byte and empty   *)
(* shards all occur.                                                       *)
(*                                                                         *)
(* The evaluators themselves, with the tables and the byte operations of   *)
(* Haraka-512 that they are made of, are translated byte for byte, and     *)
(* EvalSpec calls them on dofs of the run with seed 53.                    *)
(***************************************************************************)
EXTENDS Integers, Sequences, FiniteSets, TLC

\* Number of threads of each phase: th1..th4, and the modulus of i % 4.
N == 4

\* Scaled-down ranges and thresholds (the source values are in comments).
Size1 == 6          \* size1 = 1 << 29
Size2 == 6          \* size2 = 4294967295
BufMax == 1         \* a buffer is emptied when bufsize > 10000
PairsStep == 2      \* a progress line every 1 << 22 pairs
MaxFpByte == 1      \* fingerprint bytes of the result tables are 0..MaxFpByte
MaxRuns == 2        \* calls of search() in one process
NumFwdDofs == 3     \* forward dofs given to the evaluators
NumBwdDofs == 3     \* backward dofs given to the evaluators
NumGuess == 2       \* settings of the guess vectors
NumScratch == 1     \* byte patterns of memory that was never written
NumBlocks == 3      \* states the operations of the permutation are applied to

\* search(rc, 53) in main.
FirstSeed == 53

\* A forward progress line is printed when i % (1 << 24) == 0.
ProgressStep == 16777216

W == 0 .. N - 1

\* The shards of fwdvecs that the result tables can address.
ShardKeys == (0 .. MaxFpByte) \X (0 .. MaxFpByte) \X (0 .. MaxFpByte)

\* fwddof[k] = uint8_t((i >> 8k) & 0xFF), the same for bwddof.
DofOf(i) ==
    << i % 256, (i \div 256) % 256, (i \div 65536) % 256, (i \div 16777216) % 256 >>

\* The index whose encoding is the dof d (the inverse of DofOf below 2^32).
IndexOf(d) == d[1] + 256 * d[2] + 65536 * d[3] + 16777216 * d[4]

---------------------------------------------------------------------------
\* The constant tables of haraka.cpp.

table2 ==
    << 0, 2, 4, 6, 8, 10, 12, 14, 16, 18, 20, 22, 24, 26, 28, 30,
       32, 34, 36, 38, 40, 42, 44, 46, 48, 50, 52, 54, 56, 58, 60, 62,
       64, 66, 68, 70, 72, 74, 76, 78, 80, 82, 84, 86, 88, 90, 92, 94,
       96, 98, 100, 102, 104, 106, 108, 110, 112, 114, 116, 118, 120, 122, 124, 126,
       128, 130, 132, 134, 136, 138, 140, 142, 144, 146, 148, 150, 152, 154, 156, 158,
       160, 162, 164, 166, 168, 170, 172, 174, 176, 178, 180, 182, 184, 186, 188, 190,
       192, 194, 196, 198, 200, 202, 204, 206, 208, 210, 212, 214, 216, 218, 220, 222,
       224, 226, 228, 230, 232, 234, 236, 238, 240, 242, 244, 246, 248, 250, 252, 254,
       27, 25, 31, 29, 19, 17, 23, 21, 11, 9, 15, 13, 3, 1, 7, 5,
       59, 57, 63, 61, 51, 49, 55, 53, 43, 41, 47, 45, 35, 33, 39, 37,
       91, 89, 95, 93, 83, 81, 87, 85, 75, 73, 79, 77, 67, 65, 71, 69,
       123, 121, 127, 125, 115, 113, 119, 117, 107, 105, 111, 109, 99, 97, 103, 101,
       155, 153, 159, 157, 147, 145, 151, 149, 139, 137, 143, 141, 131, 129, 135, 133,
       187, 185, 191, 189, 179, 177, 183, 181, 171, 169, 175, 173, 163, 161, 167, 165,
       219, 217, 223, 221, 211, 209, 215, 213, 203, 201, 207, 205, 195, 193, 199, 197,
       251, 249, 255, 253, 243, 241, 247, 245, 235, 233, 239, 237, 227, 225, 231, 229 >>

table3 ==
    << 0, 3, 6, 5, 12, 15, 10, 9, 24, 27, 30, 29, 20, 23, 18, 17,
       48, 51, 54, 53, 60, 63, 58, 57, 40, 43, 46, 45, 36, 39, 34, 33,
       96, 99, 102, 101, 108, 111, 106, 105, 120, 123, 126, 125, 116, 119, 114, 113,
       80, 83, 86, 85, 92, 95, 90, 89, 72, 75, 78, 77, 68, 71, 66, 65,
       192, 195, 198, 197, 204, 207, 202, 201, 216, 219, 222, 221, 212, 215, 210, 209,
       240, 243, 246, 245, 252, 255, 250, 249, 232, 235, 238, 237, 228, 231, 226, 225,
       160, 163, 166, 165, 172, 175, 170, 169, 184, 187, 190, 189, 180, 183, 178, 177,
       144, 147, 150, 149, 156, 159, 154, 153, 136, 139, 142, 141, 132, 135, 130, 129,
       155, 152, 157, 158, 151, 148, 145, 146, 131, 128, 133, 134, 143, 140, 137, 138,
       171, 168, 173, 174, 167, 164, 161, 162, 179, 176, 181, 182, 191, 188, 185, 186,
       251, 248, 253, 254, 247, 244, 241, 242, 227, 224, 229, 230, 239, 236, 233, 234,
       203, 200, 205, 206, 199, 196, 193, 194, 211, 208, 213, 214, 223, 220, 217, 218,
       91, 88, 93, 94, 87, 84, 81, 82, 67, 64, 69, 70, 79, 76, 73, 74,
       107, 104, 109, 110, 103, 100, 97, 98, 115, 112, 117, 118, 127, 124, 121, 122,
       59, 56, 61, 62, 55, 52, 49, 50, 35, 32, 37, 38, 47, 44, 41, 42,
       11, 8, 13, 14, 7, 4, 1, 2, 19, 16, 21, 22, 31, 28, 25, 26 >>

table7 ==
    << 0, 7, 14, 9, 28, 27, 18, 21, 56, 63, 54, 49, 36, 35, 42, 45,
       112, 119, 126, 121, 108, 107, 98, 101, 72, 79, 70, 65, 84, 83, 90, 93,
       224, 231, 238, 233, 252, 251, 242, 245, 216, 223, 214, 209, 196, 195, 202, 205,
       144, 151, 158, 153, 140, 139, 130, 133, 168, 175, 166, 161, 180, 179, 186, 189,
       219, 220, 213, 210, 199, 192, 201, 206, 227, 228, 237, 234, 255, 248, 241, 246,
       171, 172, 165, 162, 183, 176, 185, 190, 147, 148, 157, 154, 143, 136, 129, 134,
       59, 60, 53, 50, 39, 32, 41, 46, 3, 4, 13, 10, 31, 24, 17, 22,
       75, 76, 69, 66, 87, 80, 89, 94, 115, 116, 125, 122, 111, 104, 97, 102,
       173, 170, 163, 164, 177, 182, 191, 184, 149, 146, 155, 156, 137, 142, 135, 128,
       221, 218, 211, 212, 193, 198, 207, 200, 229, 226, 235, 236, 249, 254, 247, 240,
       77, 74, 67, 68, 81, 86, 95, 88, 117, 114, 123, 124, 105, 110, 103, 96,
       61, 58, 51, 52, 33, 38, 47, 40, 5, 2, 11, 12, 25, 30, 23, 16,
       118, 113, 120, 127, 106, 109, 100, 99, 78, 73, 64, 71, 82, 85, 92, 91,
       6, 1, 8, 15, 26, 29, 20, 19, 62, 57, 48, 55, 34, 37, 44, 43,
       150, 145, 152, 159, 138, 141, 132, 131, 174, 169, 160, 167, 178, 181, 188, 187,
       230, 225, 232, 239, 250, 253, 244, 243, 222, 217, 208, 215, 194, 197, 204, 203 >>

table13 ==
    << 0, 13, 26, 23, 52, 57, 46, 35, 104, 101, 114, 127, 92, 81, 70, 75,
       208, 221, 202, 199, 228, 233, 254, 243, 184, 181, 162, 175, 140, 129, 150, 155,
       187, 182, 161, 172, 143, 130, 149, 152, 211, 222, 201, 196, 231, 234, 253, 240,
       107, 102, 113, 124, 95, 82, 69, 72, 3, 14, 25, 20, 55, 58, 45, 32,
       109, 96, 119, 122, 89, 84, 67, 78, 5, 8, 31, 18, 49, 60, 43, 38,
       189, 176, 167, 170, 137, 132, 147, 158, 213, 216, 207, 194, 225, 236, 251, 246,
       214, 219, 204, 193, 226, 239, 248, 245, 190, 179, 164, 169, 138, 135, 144, 157,
       6, 11, 28, 17, 50, 63, 40, 37, 110, 99, 116, 121, 90, 87, 64, 77,
       218, 215, 192, 205, 238, 227, 244, 249, 178, 191, 168, 165, 134, 139, 156, 145,
       10, 7, 16, 29, 62, 51, 36, 41, 98, 111, 120, 117, 86, 91, 76, 65,
       97, 108, 123, 118, 85, 88, 79, 66, 9, 4, 19, 30, 61, 48, 39, 42,
       177, 188, 171, 166, 133, 136, 159, 146, 217, 212, 195, 206, 237, 224, 247, 250,
       183, 186, 173, 160, 131, 142, 153, 148, 223, 210, 197, 200, 235, 230, 241, 252,
       103, 106, 125, 112, 83, 94, 73, 68, 15, 2, 21, 24, 59, 54, 33, 44,
       12, 1, 22, 27, 56, 53, 34, 47, 100, 105, 126, 115, 80, 93, 74, 71,
       220, 209, 198, 203, 232, 229, 242, 255, 180, 185, 174, 163, 128, 141, 154, 151 >>

table9 ==
    << 0, 9, 18, 27, 36, 45, 54, 63, 72, 65, 90, 83, 108, 101, 126, 119,
       144, 153, 130, 139, 180, 189, 166, 175, 216, 209, 202, 195, 252, 245, 238, 231,
       59, 50, 41, 32, 31, 22, 13, 4, 115, 122, 97, 104, 87, 94, 69, 76,
       171, 162, 185, 176, 143, 134, 157, 148, 227, 234, 241, 248, 199, 206, 213, 220,
       118, 127, 100, 109, 82, 91, 64, 73, 62, 55, 44, 37, 26, 19, 8, 1,
       230, 239, 244, 253, 194, 203, 208, 217, 174, 167, 188, 181, 138, 131, 152, 145,
       77, 68, 95, 86, 105, 96, 123, 114, 5, 12, 23, 30, 33, 40, 51, 58,
       221, 212, 207, 198, 249, 240, 235, 226, 149, 156, 135, 142, 177, 184, 163, 170,
       236, 229, 254, 247, 200, 193, 218, 211, 164, 173, 182, 191, 128, 137, 146, 155,
       124, 117, 110, 103, 88, 81, 74, 67, 52, 61, 38, 47, 16, 25, 2, 11,
       215, 222, 197, 204, 243, 250, 225, 232, 159, 150, 141, 132, 187, 178, 169, 160,
       71, 78, 85, 92, 99, 106, 113, 120, 15, 6, 29, 20, 43, 34, 57, 48,
       154, 147, 136, 129, 190, 183, 172, 165, 210, 219, 192, 201, 246, 255, 228, 237,
       10, 3, 24, 17, 46, 39, 60, 53, 66, 75, 80, 89, 102, 111, 116, 125,
       161, 168, 179, 186, 133, 140, 151, 158, 233, 224, 251, 242, 205, 196, 223, 214,
       49, 56, 35, 42, 21, 28, 7, 14, 121, 112, 107, 98, 93, 84, 79, 70 >>

table11 ==
    << 0, 11, 22, 29, 44, 39, 58, 49, 88, 83, 78, 69, 116, 127, 98, 105,
       176, 187, 166, 173, 156, 151, 138, 129, 232, 227, 254, 245, 196, 207, 210, 217,
       123, 112, 109, 102, 87, 92, 65, 74, 35, 40, 53, 62, 15, 4, 25, 18,
       203, 192, 221, 214, 231, 236, 241, 250, 147, 152, 133, 142, 191, 180, 169, 162,
       246, 253, 224, 235, 218, 209, 204, 199, 174, 165, 184, 179, 130, 137, 148, 159,
       70, 77, 80, 91, 106, 97, 124, 119, 30, 21, 8, 3, 50, 57, 36, 47,
       141, 134, 155, 144, 161, 170, 183, 188, 213, 222, 195, 200, 249, 242, 239, 228,
       61, 54, 43, 32, 17, 26, 7, 12, 101, 110, 115, 120, 73, 66, 95, 84,
       247, 252, 225, 234, 219, 208, 205, 198, 175, 164, 185, 178, 131, 136, 149, 158,
       71, 76, 81, 90, 107, 96, 125, 118, 31, 20, 9, 2, 51, 56, 37, 46,
       140, 135, 154, 145, 160, 171, 182, 189, 212, 223, 194, 201, 248, 243, 238, 229,
       60, 55, 42, 33, 16, 27, 6, 13, 100, 111, 114, 121, 72, 67, 94, 85,
       1, 10, 23, 28, 45, 38, 59, 48, 89, 82, 79, 68, 117, 126, 99, 104,
       177, 186, 167, 172, 157, 150, 139, 128, 233, 226, 255, 244, 197, 206, 211, 216,
       122, 113, 108, 103, 86, 93, 64, 75, 34, 41, 52, 63, 14, 5, 24, 19,
       202, 193, 220, 215, 230, 237, 240, 251, 146, 153, 132, 143, 190, 181, 168, 163 >>

table14 ==
    << 0, 14, 28, 18, 56, 54, 36, 42, 112, 126, 108, 98, 72, 70, 84, 90,
       224, 238, 252, 242, 216, 214, 196, 202, 144, 158, 140, 130, 168, 166, 180, 186,
       219, 213, 199, 201, 227, 237, 255, 241, 171, 165, 183, 185, 147, 157, 143, 129,
       59, 53, 39, 41, 3, 13, 31, 17, 75, 69, 87, 89, 115, 125, 111, 97,
       173, 163, 177, 191, 149, 155, 137, 135, 221, 211, 193, 207, 229, 235, 249, 247,
       77, 67, 81, 95, 117, 123, 105, 103, 61, 51, 33, 47, 5, 11, 25, 23,
       118, 120, 106, 100, 78, 64, 82, 92, 6, 8, 26, 20, 62, 48, 34, 44,
       150, 152, 138, 132, 174, 160, 178, 188, 230, 232, 250, 244, 222, 208, 194, 204,
       65, 79, 93, 83, 121, 119, 101, 107, 49, 63, 45, 35, 9, 7, 21, 27,
       161, 175, 189, 179, 153, 151, 133, 139, 209, 223, 205, 195, 233, 231, 245, 251,
       154, 148, 134, 136, 162, 172, 190, 176, 234, 228, 246, 248, 210, 220, 206, 192,
       122, 116, 102, 104, 66, 76, 94, 80, 10, 4, 22, 24, 50, 60, 46, 32,
       236, 226, 240, 254, 212, 218, 200, 198, 156, 146, 128, 142, 164, 170, 184, 182,
       12, 2, 16, 30, 52, 58, 40, 38, 124, 114, 96, 110, 68, 74, 88, 86,
       55, 57, 43, 37, 15, 1, 19, 29, 71, 73, 91, 85, 127, 113, 99, 109,
       215, 217, 203, 197, 239, 225, 243, 253, 167, 169, 187, 181, 159, 145, 131, 141 >>

table68 ==
    << 0, 68, 136, 204, 11, 79, 131, 199, 22, 82, 158, 218, 29, 89, 149, 209,
       44, 104, 164, 224, 39, 99, 175, 235, 58, 126, 178, 246, 49, 117, 185, 253,
       88, 28, 208, 148, 83, 23, 219, 159, 78, 10, 198, 130, 69, 1, 205, 137,
       116, 48, 252, 184, 127, 59, 247, 179, 98, 38, 234, 174, 105, 45, 225, 165,
       176, 244, 56, 124, 187, 255, 51, 119, 166, 226, 46, 106, 173, 233, 37, 97,
       156, 216, 20, 80, 151, 211, 31, 91, 138, 206, 2, 70, 129, 197, 9, 77,
       232, 172, 96, 36, 227, 167, 107, 47, 254, 186, 118, 50, 245, 177, 125, 57,
       196, 128, 76, 8, 207, 139, 71, 3, 210, 150, 90, 30, 217, 157, 81, 21,
       123, 63, 243, 183, 112, 52, 248, 188, 109, 41, 229, 161, 102, 34, 238, 170,
       87, 19, 223, 155, 92, 24, 212, 144, 65, 5, 201, 141, 74, 14, 194, 134,
       35, 103, 171, 239, 40, 108, 160, 228, 53, 113, 189, 249, 62, 122, 182, 242,
       15, 75, 135, 195, 4, 64, 140, 200, 25, 93, 145, 213, 18, 86, 154, 222,
       203, 143, 67, 7, 192, 132, 72, 12, 221, 153, 85, 17, 214, 146, 94, 26,
       231, 163, 111, 43, 236, 168, 100, 32, 241, 181, 121, 61, 250, 190, 114, 54,
       147, 215, 27, 95, 152, 220, 16, 84, 133, 193, 13, 73, 142, 202, 6, 66,
       191, 251, 55, 115, 180, 240, 60, 120, 169, 237, 33, 101, 162, 230, 42, 110 >>

table71 ==
    << 0, 71, 142, 201, 7, 64, 137, 206, 14, 73, 128, 199, 9, 78, 135, 192,
       28, 91, 146, 213, 27, 92, 149, 210, 18, 85, 156, 219, 21, 82, 155, 220,
       56, 127, 182, 241, 63, 120, 177, 246, 54, 113, 184, 255, 49, 118, 191, 248,
       36, 99, 170, 237, 35, 100, 173, 234, 42, 109, 164, 227, 45, 106, 163, 228,
       112, 55, 254, 185, 119, 48, 249, 190, 126, 57, 240, 183, 121, 62, 247, 176,
       108, 43, 226, 165, 107, 44, 229, 162, 98, 37, 236, 171, 101, 34, 235, 172,
       72, 15, 198, 129, 79, 8, 193, 134, 70, 1, 200, 143, 65, 6, 207, 136,
       84, 19, 218, 157, 83, 20, 221, 154, 90, 29, 212, 147, 93, 26, 211, 148,
       224, 167, 110, 41, 231, 160, 105, 46, 238, 169, 96, 39, 233, 174, 103, 32,
       252, 187, 114, 53, 251, 188, 117, 50, 242, 181, 124, 59, 245, 178, 123, 60,
       216, 159, 86, 17, 223, 152, 81, 22, 214, 145, 88, 31, 209, 150, 95, 24,
       196, 131, 74, 13, 195, 132, 77, 10, 202, 141, 68, 3, 205, 138, 67, 4,
       144, 215, 30, 89, 151, 208, 25, 94, 158, 217, 16, 87, 153, 222, 23, 80,
       140, 203, 2, 69, 139, 204, 5, 66, 130, 197, 12, 75, 133, 194, 11, 76,
       168, 239, 38, 97, 175, 232, 33, 102, 166, 225, 40, 111, 161, 230, 47, 104,
       180, 243, 58, 125, 179, 244, 61, 122, 186, 253, 52, 115, 189, 250, 51, 116 >>

table201 ==
    << 0, 201, 137, 64, 9, 192, 128, 73, 18, 219, 155, 82, 27, 210, 146, 91,
       36, 237, 173, 100, 45, 228, 164, 109, 54, 255, 191, 118, 63, 246, 182, 127,
       72, 129, 193, 8, 65, 136, 200, 1, 90, 147, 211, 26, 83, 154, 218, 19,
       108, 165, 229, 44, 101, 172, 236, 37, 126, 183, 247, 62, 119, 190, 254, 55,
       144, 89, 25, 208, 153, 80, 16, 217, 130, 75, 11, 194, 139, 66, 2, 203,
       180, 125, 61, 244, 189, 116, 52, 253, 166, 111, 47, 230, 175, 102, 38, 239,
       216, 17, 81, 152, 209, 24, 88, 145, 202, 3, 67, 138, 195, 10, 74, 131,
       252, 53, 117, 188, 245, 60, 124, 181, 238, 39, 103, 174, 231, 46, 110, 167,
       59, 242, 178, 123, 50, 251, 187, 114, 41, 224, 160, 105, 32, 233, 169, 96,
       31, 214, 150, 95, 22, 223, 159, 86, 13, 196, 132, 77, 4, 205, 141, 68,
       115, 186, 250, 51, 122, 179, 243, 58, 97, 168, 232, 33, 104, 161, 225, 40,
       87, 158, 222, 23, 94, 151, 215, 30, 69, 140, 204, 5, 76, 133, 197, 12,
       171, 98, 34, 235, 162, 107, 43, 226, 185, 112, 48, 249, 176, 121, 57, 240,
       143, 70, 6, 207, 134, 79, 15, 198, 157, 84, 20, 221, 148, 93, 29, 212,
       227, 42, 106, 163, 234, 35, 99, 170, 241, 56, 120, 177, 248, 49, 113, 184,
       199, 14, 78, 135, 206, 7, 71, 142, 213, 28, 92, 149, 220, 21, 85, 156 >>

table203 ==
    << 0, 203, 141, 70, 1, 202, 140, 71, 2, 201, 143, 68, 3, 200, 142, 69,
       4, 207, 137, 66, 5, 206, 136, 67, 6, 205, 139, 64, 7, 204, 138, 65,
       8, 195, 133, 78, 9, 194, 132, 79, 10, 193, 135, 76, 11, 192, 134, 77,
       12, 199, 129, 74, 13, 198, 128, 75, 14, 197, 131, 72, 15, 196, 130, 73,
       16, 219, 157, 86, 17, 218, 156, 87, 18, 217, 159, 84, 19, 216, 158, 85,
       20, 223, 153, 82, 21, 222, 152, 83, 22, 221, 155, 80, 23, 220, 154, 81,
       24, 211, 149, 94, 25, 210, 148, 95, 26, 209, 151, 92, 27, 208, 150, 93,
       28, 215, 145, 90, 29, 214, 144, 91, 30, 213, 147, 88, 31, 212, 146, 89,
       32, 235, 173, 102, 33, 234, 172, 103, 34, 233, 175, 100, 35, 232, 174, 101,
       36, 239, 169, 98, 37, 238, 168, 99, 38, 237, 171, 96, 39, 236, 170, 97,
       40, 227, 165, 110, 41, 226, 164, 111, 42, 225, 167, 108, 43, 224, 166, 109,
       44, 231, 161, 106, 45, 230, 160, 107, 46, 229, 163, 104, 47, 228, 162, 105,
       48, 251, 189, 118, 49, 250, 188, 119, 50, 249, 191, 116, 51, 248, 190, 117,
       52, 255, 185, 114, 53, 254, 184, 115, 54, 253, 187, 112, 55, 252, 186, 113,
       56, 243, 181, 126, 57, 242, 180, 127, 58, 241, 183, 124, 59, 240, 182, 125,
       60, 247, 177, 122, 61, 246, 176, 123, 62, 245, 179, 120, 63, 244, 178, 121 >>

sbox_table ==
    << 99, 124, 119, 123, 242, 107, 111, 197, 48, 1, 103, 43, 254, 215, 171, 118,
       202, 130, 201, 125, 250, 89, 71, 240, 173, 212, 162, 175, 156, 164, 114, 192,
       183, 253, 147, 38, 54, 63, 247, 204, 52, 165, 229, 241, 113, 216, 49, 21,
       4, 199, 35, 195, 24, 150, 5, 154, 7, 18, 128, 226, 235, 39, 178, 117,
       9, 131, 44, 26, 27, 110, 90, 160, 82, 59, 214, 179, 41, 227, 47, 132,
       83, 209, 0, 237, 32, 252, 177, 91, 106, 203, 190, 57, 74, 76, 88, 207,
       208, 239, 170, 251, 67, 77, 51, 133, 69, 249, 2, 127, 80, 60, 159, 168,
       81, 163, 64, 143, 146, 157, 56, 245, 188, 182, 218, 33, 16, 255, 243, 210,
       205, 12, 19, 236, 95, 151, 68, 23, 196, 167, 126, 61, 100, 93, 25, 115,
       96, 129, 79, 220, 34, 42, 144, 136, 70, 238, 184, 20, 222, 94, 11, 219,
       224, 50, 58, 10, 73, 6, 36, 92, 194, 211, 172, 98, 145, 149, 228, 121,
       231, 200, 55, 109, 141, 213, 78, 169, 108, 86, 244, 234, 101, 122, 174, 8,
       186, 120, 37, 46, 28, 166, 180, 198, 232, 221, 116, 31, 75, 189, 139, 138,
       112, 62, 181, 102, 72, 3, 246, 14, 97, 53, 87, 185, 134, 193, 29, 158,
       225, 248, 152, 17, 105, 217, 142, 148, 155, 30, 135, 233, 206, 85, 40, 223,
       140, 161, 137, 13, 191, 230, 66, 104, 65, 153, 45, 15, 176, 84, 187, 22 >>

invsbox_table ==
    << 82, 9, 106, 213, 48, 54, 165, 56, 191, 64, 163, 158, 129, 243, 215, 251,
       124, 227, 57, 130, 155, 47, 255, 135, 52, 142, 67, 68, 196, 222, 233, 203,
       84, 123, 148, 50, 166, 194, 35, 61, 238, 76, 149, 11, 66, 250, 195, 78,
       8, 46, 161, 102, 40, 217, 36, 178, 118, 91, 162, 73, 109, 139, 209, 37,
       114, 248, 246, 100, 134, 104, 152, 22, 212, 164, 92, 204, 93, 101, 182, 146,
       108, 112, 72, 80, 253, 237, 185, 218, 94, 21, 70, 87, 167, 141, 157, 132,
       144, 216, 171, 0, 140, 188, 211, 10, 247, 228, 88, 5, 184, 179, 69, 6,
       208, 44, 30, 143, 202, 63, 15, 2, 193, 175, 189, 3, 1, 19, 138, 107,
       58, 145, 17, 65, 79, 103, 220, 234, 151, 242, 207, 206, 240, 180, 230, 115,
       150, 172, 116, 34, 231, 173, 53, 133, 226, 249, 55, 232, 28, 117, 223, 110,
       71, 241, 26, 113, 29, 41, 197, 137, 111, 183, 98, 14, 170, 24, 190, 27,
       252, 86, 62, 75, 198, 210, 121, 32, 154, 219, 192, 254, 120, 205, 90, 244,
       31, 221, 168, 51, 136, 7, 199, 49, 177, 18, 16, 89, 39, 128, 236, 95,
       96, 81, 127, 169, 25, 181, 74, 13, 45, 229, 122, 159, 147, 201, 156, 239,
       160, 224, 59, 77, 174, 42, 245, 176, 200, 235, 187, 60, 131, 83, 153, 97,
       23, 43, 4, 126, 186, 119, 214, 38, 225, 105, 20, 99, 85, 33, 12, 125 >>

haraka_rcons_table ==
    << << 157, 123, 129, 117, 240, 254, 197, 178, 10, 192, 32, 230, 76, 112, 132, 6 >>,
       << 23, 247, 8, 47, 164, 107, 15, 100, 107, 160, 243, 136, 225, 180, 102, 139 >>,
       << 20, 145, 2, 159, 96, 157, 2, 207, 152, 132, 242, 83, 45, 222, 2, 52 >>,
       << 121, 79, 91, 253, 175, 188, 243, 187, 8, 79, 123, 46, 230, 234, 214, 14 >>,
       << 68, 112, 57, 190, 28, 205, 238, 121, 139, 68, 114, 72, 203, 176, 207, 203 >>,
       << 123, 5, 138, 43, 237, 53, 83, 141, 183, 50, 144, 110, 238, 205, 234, 126 >>,
       << 27, 239, 79, 218, 97, 39, 65, 226, 208, 124, 46, 94, 67, 143, 194, 103 >>,
       << 59, 11, 199, 31, 226, 253, 95, 103, 7, 204, 202, 175, 176, 217, 36, 41 >>,
       << 238, 101, 212, 185, 202, 143, 219, 236, 233, 127, 134, 230, 241, 99, 77, 171 >>,
       << 51, 126, 3, 173, 79, 64, 42, 91, 100, 205, 183, 212, 132, 191, 48, 28 >>,
       << 0, 152, 246, 141, 46, 139, 2, 105, 191, 35, 23, 148, 185, 11, 204, 178 >>,
       << 138, 45, 157, 92, 200, 158, 170, 74, 114, 85, 111, 222, 166, 120, 4, 250 >>,
       << 212, 159, 18, 41, 46, 79, 250, 14, 18, 42, 119, 107, 43, 159, 180, 223 >>,
       << 238, 18, 106, 187, 174, 17, 214, 50, 54, 162, 73, 244, 68, 3, 161, 30 >>,
       << 166, 236, 168, 156, 201, 0, 150, 95, 132, 0, 5, 75, 136, 73, 4, 175 >>,
       << 236, 147, 229, 39, 227, 199, 162, 120, 79, 156, 25, 157, 216, 94, 2, 33 >>,
       << 115, 1, 212, 130, 205, 46, 40, 185, 183, 201, 89, 167, 248, 170, 58, 191 >>,
       << 107, 125, 48, 16, 217, 239, 242, 55, 23, 176, 134, 97, 13, 112, 96, 98 >>,
       << 198, 154, 252, 246, 83, 145, 194, 129, 67, 4, 48, 33, 194, 69, 202, 90 >>,
       << 58, 148, 209, 54, 232, 146, 175, 44, 187, 104, 107, 34, 60, 151, 35, 146 >>,
       << 180, 113, 16, 229, 88, 185, 186, 108, 235, 134, 88, 34, 56, 146, 191, 211 >>,
       << 141, 18, 225, 36, 221, 253, 61, 147, 119, 198, 240, 174, 229, 60, 134, 219 >>,
       << 177, 18, 34, 203, 227, 141, 228, 131, 156, 160, 235, 255, 104, 98, 96, 187 >>,
       << 125, 247, 43, 199, 78, 26, 185, 45, 156, 209, 228, 226, 220, 211, 75, 115 >>,
       << 78, 146, 179, 44, 196, 21, 20, 75, 67, 27, 48, 97, 195, 71, 187, 67 >>,
       << 153, 104, 235, 22, 221, 49, 178, 3, 246, 239, 7, 231, 168, 117, 167, 219 >>,
       << 44, 71, 202, 126, 2, 35, 94, 142, 119, 89, 117, 60, 75, 97, 243, 109 >>,
       << 249, 23, 134, 184, 185, 229, 27, 109, 119, 125, 222, 214, 23, 90, 167, 205 >>,
       << 93, 238, 70, 169, 157, 6, 108, 157, 170, 233, 168, 107, 240, 67, 107, 236 >>,
       << 193, 39, 243, 59, 89, 17, 83, 162, 43, 51, 87, 249, 80, 105, 30, 203 >>,
       << 217, 208, 14, 96, 83, 3, 237, 228, 156, 97, 218, 0, 117, 12, 238, 44 >>,
       << 80, 163, 164, 99, 188, 186, 187, 128, 171, 12, 233, 150, 161, 165, 177, 240 >>,
       << 57, 202, 141, 147, 48, 222, 13, 171, 136, 41, 150, 94, 2, 177, 61, 174 >>,
       << 66, 180, 117, 46, 168, 243, 20, 136, 11, 164, 84, 213, 56, 143, 187, 23 >>,
       << 246, 22, 10, 54, 121, 183, 182, 174, 215, 127, 66, 95, 91, 138, 187, 52 >>,
       << 222, 175, 186, 255, 24, 89, 206, 67, 56, 84, 229, 203, 65, 82, 246, 38 >>,
       << 120, 201, 158, 131, 247, 156, 202, 162, 106, 2, 243, 185, 84, 154, 233, 76 >>,
       << 53, 18, 144, 34, 40, 110, 192, 64, 190, 247, 223, 27, 26, 165, 81, 174 >>,
       << 207, 89, 166, 72, 15, 188, 115, 193, 43, 210, 126, 186, 60, 97, 193, 160 >>,
       << 161, 157, 197, 233, 253, 189, 214, 74, 136, 130, 40, 2, 3, 204, 106, 117 >> >>

rc_words ==
    << << << 1668, 28748 >>, << 58912, 49162 >>, << 45765, 65264 >>, << 30081, 31645 >> >>,
       << << 35686, 46305 >>, << 35059, 41067 >>, << 25615, 27556 >>, << 12040, 63255 >> >>,
       << << 13314, 56877 >>, << 21490, 33944 >>, << 52994, 40288 >>, << 40706, 37140 >> >>,
       << << 3798, 60134 >>, << 11899, 20232 >>, << 48115, 48303 >>, << 64859, 20345 >> >>,
       << << 52175, 45259 >>, << 18546, 17547 >>, << 31214, 52508 >>, << 48697, 28740 >> >>,
       << << 32490, 52718 >>, << 28304, 12983 >>, << 36179, 13805 >>, << 11146, 1403 >> >>,
       << << 26562, 36675 >>, << 24110, 31952 >>, << 57921, 10081 >>, << 55887, 61211 >> >>,
       << << 10532, 55728 >>, << 45002, 52231 >>, << 26463, 64994 >>, << 8135, 2875 >> >>,
       << << 43853, 25585 >>, << 59014, 32745 >>, << 60635, 36810 >>, << 47572, 26094 >> >>,
       << << 7216, 49028 >>, << 54455, 52580 >>, << 23338, 16463 >>, << 44291, 32307 >> >>,
       << << 45772, 3001 >>, << 37911, 9151 >>, << 26882, 35630 >>, << 36342, 38912 >> >>,
       << << 64004, 30886 >>, << 56943, 21874 >>, << 19114, 40648 >>, << 23709, 11658 >> >>,
       << << 57268, 40747 >>, << 27511, 10770 >>, << 3834, 20270 >>, << 10514, 40916 >> >>,
       << << 7841, 836 >>, << 62537, 41526 >>, << 13014, 4526 >>, << 47978, 4846 >> >>,
       << << 44804, 18824 >>, << 19205, 132 >>, << 24470, 201 >>, << 40104, 60582 >> >>,
       << << 8450, 24280 >>, << 40217, 40015 >>, << 30882, 51171 >>, << 10213, 37868 >> >>,
       << << 48954, 43768 >>, << 42841, 51639 >>, << 47400, 11981 >>, << 33492, 371 >> >>,
       << << 25184, 28685 >>, << 24966, 45079 >>, << 14322, 61401 >>, << 4144, 32107 >> >>,
       << << 23242, 17858 >>, << 8496, 1091 >>, << 33218, 37203 >>, << 63228, 39622 >> >>,
       << << 37411, 38716 >>, << 8811, 26811 >>, << 11439, 37608 >>, << 14033, 37946 >> >>,
       << << 54207, 37432 >>, << 8792, 34539 >>, << 27834, 47448 >>, << 58640, 29108 >> >>,
       << << 56198, 15589 >>, << 44784, 50807 >>, << 37693, 64989 >>, << 9441, 4749 >> >>,
       << << 47968, 25192 >>, << 65515, 41116 >>, << 33764, 36323 >>, << 52002, 4785 >> >>,
       << << 29515, 54236 >>, << 58084, 53660 >>, << 11705, 6734 >>, << 50987, 63357 >> >>,
       << << 17339, 18371 >>, << 24880, 6979 >>, << 19220, 5572 >>, << 11443, 37454 >> >>,
       << << 56231, 30120 >>, << 59143, 61430 >>, << 946, 12765 >>, << 5867, 26777 >> >>,
       << << 28147, 24907 >>, << 15477, 22903 >>, << 36446, 8962 >>, << 32458, 18220 >> >>,
       << << 52647, 23063 >>, << 55006, 32119 >>, << 27931, 58809 >>, << 47238, 6137 >> >>,
       << << 60523, 17392 >>, << 27560, 59818 >>, << 40300, 1693 >>, << 43334, 61021 >> >>,
       << << 51998, 26960 >>, << 63831, 13099 >>, << 41555, 4441 >>, << 15347, 10177 >> >>,
       << << 11502, 3189 >>, << 218, 24988 >>, << 58605, 851 >>, << 24590, 53465 >> >>,
       << << 61617, 42401 >>, << 38633, 3243 >>, << 32955, 47804 >>, << 25508, 41808 >> >>,
       << << 44605, 45314 >>, << 24214, 10632 >>, << 43789, 56880 >>, << 37773, 51769 >> >>,
       << << 6075, 36664 >>, << 54612, 41995 >>, << 34836, 62376 >>, << 11893, 46146 >> >>,
       << << 13499, 35419 >>, << 24386, 32727 >>, << 44726, 46969 >>, << 13834, 5878 >> >>,
       << << 9974, 21057 >>, << 52197, 21560 >>, << 17358, 22808 >>, << 65466, 45022 >> >>,
       << << 19689, 39508 >>, << 47603, 618 >>, << 41674, 40183 >>, << 33694, 51576 >> >>,
       << << 44625, 42266 >>, << 7135, 63422 >>, << 16576, 28200 >>, << 8848, 4661 >> >>,
       << << 41153, 24892 >>, << 47742, 53803 >>, << 49523, 48143 >>, << 18598, 22991 >> >>,
       << << 30058, 52227 >>, << 552, 33416 >>, << 19158, 48637 >>, << 59845, 40353 >> >> >>

---------------------------------------------------------------------------
\* Bytes, AES states and Haraka states.  A C++ array is a tuple: the byte
\* state[k] of the source is state[k + 1] here, the lane s[j] is s[j + 1].

\* a ^ b on uint8_t: bit k of the result is the sum modulo 2 of the bits k.
Xor(a, b) ==
    ((a + b) % 2)
        + 2 * (((a \div 2) + (b \div 2)) % 2)
        + 4 * (((a \div 4) + (b \div 4)) % 2)
        + 8 * (((a \div 8) + (b \div 8)) % 2)
        + 16 * (((a \div 16) + (b \div 16)) % 2)
        + 32 * (((a \div 32) + (b \div 32)) % 2)
        + 64 * (((a \div 64) + (b \div 64)) % 2)
        + 128 * (((a \div 128) + (b \div 128)) % 2)


times2(b) == table2[b + 1]
times3(b) == table3[b + 1]
times7(b) == table7[b + 1]
times9(b) == table9[b + 1]
times11(b) == table11[b + 1]
times13(b) == table13[b + 1]
times14(b) == table14[b + 1]
times68(b) == table68[b + 1]
times71(b) == table71[b + 1]
times201(b) == table201[b + 1]
times203(b) == table203[b + 1]
sbox(b) == sbox_table[b + 1]
\* The forward table read where the inverse one is meant.
invsboxForward(b) == sbox_table[b + 1]
invsbox(b) == invsbox_table[b + 1]

\* haraka_rcons_table[4*r + i][b].
rccon(r, i, b) == haraka_rcons_table[4 * r + i + 1][b + 1]

\* The tuple << f(0), ..., f(15) >>.
Bytes16(f(_)) ==
    << f(0), f(1), f(2), f(3), f(4), f(5), f(6), f(7),
       f(8), f(9), f(10), f(11), f(12), f(13), f(14), f(15) >>

\* The tuple << f(0), f(1), f(2), f(3) >>: a loop over the four lanes.
Lanes4(f(_)) == << f(0), f(1), f(2), f(3) >>

\* The columns f(0), ..., f(3), one after the other: a loop over the four
\* columns of a lane.
Cols4(f(_)) == f(0) \o f(1) \o f(2) \o f(3)

\* state[i] ^= haraka_rcons_table[4*r+j][i] for every i.
xor_rcons(state, r, j) ==
    Bytes16(LAMBDA i : Xor(state[i + 1], haraka_rcons_table[4 * r + j + 1][i + 1]))

subbytes(state) == Bytes16(LAMBDA i : sbox(state[i + 1]))

invsubbytes(state) == Bytes16(LAMBDA i : invsbox(state[i + 1]))

\* state[1] = state[5], state[5] = state[9], state[9] = state[13],
\* state[13] = old state[1]; state[10] <-> state[2]; state[14] <-> state[6];
\* state[15] = state[11], state[11] = state[7], state[7] = state[3],
\* state[3] = old state[15].
shiftrows(state) ==
    << state[1], state[6], state[11], state[16],
       state[5], state[10], state[15], state[4],
       state[9], state[14], state[3], state[8],
       state[13], state[2], state[7], state[12] >>

\* The substitution alone, no byte moved.
sbsrNoShift(state) == subbytes(state)

\* The assignments of shiftrows with sbox on every byte read.
sbsr(state) ==
    << sbox(state[1]), sbox(state[6]), sbox(state[11]), sbox(state[16]),
       sbox(state[5]), sbox(state[10]), sbox(state[15]), sbox(state[4]),
       sbox(state[9]), sbox(state[14]), sbox(state[3]), sbox(state[8]),
       sbox(state[13]), sbox(state[2]), sbox(state[7]), sbox(state[12]) >>

\* state[1] = state[13], state[13] = state[9], state[9] = state[5],
\* state[5] = old state[1]; state[10] <-> state[2]; state[14] <-> state[6];
\* state[3] = state[7], state[7] = state[11], state[11] = state[15],
\* state[15] = old state[3].
invshiftrows(state) ==
    << state[1], state[14], state[11], state[8],
       state[5], state[2], state[15], state[12],
       state[9], state[6], state[3], state[16],
       state[13], state[10], state[7], state[4] >>

\* The assignments of invshiftrows with invsbox on every byte read.
invsbsr(state) ==
    << invsbox(state[1]), invsbox(state[14]), invsbox(state[11]), invsbox(state[8]),
       invsbox(state[5]), invsbox(state[2]), invsbox(state[15]), invsbox(state[12]),
       invsbox(state[9]), invsbox(state[6]), invsbox(state[3]), invsbox(state[16]),
       invsbox(state[13]), invsbox(state[10]), invsbox(state[7]), invsbox(state[4]) >>

mixcolumns(state) ==
    Cols4(LAMBDA i :
            LET a == state[4 * i + 1]
                b == state[4 * i + 2]
                c == state[4 * i + 3]
                d == state[4 * i + 4]
            IN  << Xor(Xor(Xor(times2(a), times3(b)), c), d),
                   Xor(Xor(Xor(a, times2(b)), times3(c)), d),
                   Xor(Xor(Xor(a, b), times2(c)), times3(d)),
                   Xor(Xor(Xor(times3(a), b), c), times2(d)) >>)

mcrc(state, r, j) ==
    Cols4(LAMBDA i :
            LET a == state[4 * i + 1]
                b == state[4 * i + 2]
                c == state[4 * i + 3]
                d == state[4 * i + 4]
            IN  << Xor(Xor(Xor(Xor(times2(a), times3(b)), c), d), haraka_rcons_table[4 * r + j + 1][4 * i + 1]),
                   Xor(Xor(Xor(Xor(a, times2(b)), times3(c)), d), haraka_rcons_table[4 * r + j + 1][4 * i + 2]),
                   Xor(Xor(Xor(Xor(a, b), times2(c)), times3(d)), haraka_rcons_table[4 * r + j + 1][4 * i + 3]),
                   Xor(Xor(Xor(Xor(times3(a), b), c), times2(d)), haraka_rcons_table[4 * r + j + 1][4 * i + 4]) >>)

\* The forward matrix where the inverse one is meant.
invmixcolumnsForward(state) == mixcolumns(state)

invmixcolumns(state) ==
    Cols4(LAMBDA i :
            LET a == state[4 * i + 1]
                b == state[4 * i + 2]
                c == state[4 * i + 3]
                d == state[4 * i + 4]
            IN  << Xor(Xor(Xor(times14(a), times11(b)), times13(c)), times9(d)),
                   Xor(Xor(Xor(times9(a), times14(b)), times11(c)), times13(d)),
                   Xor(Xor(Xor(times13(a), times9(b)), times14(c)), times11(d)),
                   Xor(Xor(Xor(times11(a), times13(b)), times9(c)), times14(d)) >>)

invmcrc(state, r, j) ==
    Cols4(LAMBDA i :
            LET a == Xor(state[4 * i + 1], haraka_rcons_table[4 * r + j + 1][4 * i + 1])
                b == Xor(state[4 * i + 2], haraka_rcons_table[4 * r + j + 1][4 * i + 2])
                c == Xor(state[4 * i + 3], haraka_rcons_table[4 * r + j + 1][4 * i + 3])
                d == Xor(state[4 * i + 4], haraka_rcons_table[4 * r + j + 1][4 * i + 4])
            IN  << Xor(Xor(Xor(times14(a), times11(b)), times13(c)), times9(d)),
                   Xor(Xor(Xor(times9(a), times14(b)), times11(c)), times13(d)),
                   Xor(Xor(Xor(times13(a), times9(b)), times14(c)), times11(d)),
                   Xor(Xor(Xor(times11(a), times13(b)), times9(c)), times14(d)) >>)

\* sbsr(s); mcrc(s, r, j).
aesenc(s, r, j) == mcrc(sbsr(s), r, j)

\* invmcrc(s, r, j); invsbsr(s).
invaesenc(s, r, j) == invsbsr(invmcrc(s, r, j))

\* The bytes 4*c .. 4*c + 3 of a lane.
Col(state, c) == SubSeq(state, 4 * c + 1, 4 * c + 4)

\* mix512: every lane of the result, column by column, from the lanes
\* before the call (each assignment of the loop reads a column that no
\* earlier assignment has written, the first one through a).
mix512(s) ==
    << Col(s[1], 3) \o Col(s[3], 3) \o Col(s[2], 3) \o Col(s[4], 3),
       Col(s[3], 0) \o Col(s[1], 0) \o Col(s[4], 0) \o Col(s[2], 0),
       Col(s[3], 1) \o Col(s[1], 1) \o Col(s[4], 1) \o Col(s[2], 1),
       Col(s[1], 2) \o Col(s[3], 2) \o Col(s[2], 2) \o Col(s[4], 2) >>

\* The forward wiring where the inverse one is meant.
invmix512Forward(s) == mix512(s)

\* invmix512, in the same way.
invmix512(s) ==
    << Col(s[2], 1) \o Col(s[3], 1) \o Col(s[4], 0) \o Col(s[1], 0),
       Col(s[2], 3) \o Col(s[3], 3) \o Col(s[4], 2) \o Col(s[1], 2),
       Col(s[2], 0) \o Col(s[3], 0) \o Col(s[4], 1) \o Col(s[1], 1),
       Col(s[2], 2) \o Col(s[3], 2) \o Col(s[4], 3) \o Col(s[1], 3) >>

\* for (j = 0; j < 4; j++) aesenc(hkstate[j], r, j).
aesencAll(s, r) == Lanes4(LAMBDA j : aesenc(s[j + 1], r, j))

\* for (j = 0; j < 4; j++) invaesenc(s[j], r, j).
invaesencAll(s, r) == Lanes4(LAMBDA j : invaesenc(s[j + 1], r, j))

\* F(v), with v computed before F is applied to it.  The source is a
\* sequence of statements: the state that a statement leaves is computed
\* before the next statement starts.
Then(v, F(_)) == CHOOSE y \in { F(x) : x \in { v } } : TRUE

\* The rounds r .. last - 1 of a loop that never calls mix512.
RECURSIVE haraka512piRoundsNoMix(_, _, _)
haraka512piRoundsNoMix(hkstate, r, last) ==
    IF r >= last THEN hkstate
    ELSE Then(aesencAll(hkstate, r),
              LAMBDA u : haraka512piRoundsNoMix(u, r + 1, last))

\* The rounds r .. last - 1 of the loop of haraka512pi.
RECURSIVE haraka512piRounds(_, _, _)
haraka512piRounds(hkstate, r, last) ==
    IF r >= last THEN hkstate
    ELSE Then(IF r % 2 = 1 THEN mix512(aesencAll(hkstate, r)) ELSE aesencAll(hkstate, r),
              LAMBDA u : haraka512piRounds(u, r + 1, last))

haraka512pi(hkstate) == haraka512piRounds(hkstate, 0, 10)

---------------------------------------------------------------------------
\* The AES-NI values: an __m128i is the tuple of its four 32-bit elements,
\* element 0 (bits 0..31) first, and an element is the tuple of its four
\* bytes, the least significant first.  A 32-bit literal 0xHHHHLLLL is
\* written as the pair << 0xHHHH, 0xLLLL >>.

\* _mm_loadu_si128 of the 16 bytes of a state.
state_to_value(s) ==
    << SubSeq(s, 1, 4), SubSeq(s, 5, 8), SubSeq(s, 9, 12), SubSeq(s, 13, 16) >>

\* _mm_storeu_si128 into the 16 bytes of a state.
value_to_state(value) == value[1] \o value[2] \o value[3] \o value[4]

\* _mm_setr_epi32: the same elements in reversed order, element 0 is e3.
mm_setr_epi32(e3, e2, e1, e0) ==
    LET Element(e) == << e[2] % 256, e[2] \div 256, e[1] % 256, e[1] \div 256 >>
    IN  << Element(e3), Element(e2), Element(e1), Element(e0) >>

\* _mm_set_epi32(e3, e2, e1, e0): element 0 is e0.
mm_set_epi32(e3, e2, e1, e0) ==
    LET Element(e) == << e[2] % 256, e[2] \div 256, e[1] % 256, e[1] \div 256 >>
    IN  << Element(e0), Element(e1), Element(e2), Element(e3) >>

\* rc[k] as main fills it.
rc(k) ==
    mm_set_epi32(rc_words[k + 1][1], rc_words[k + 1][2],
                 rc_words[k + 1][3], rc_words[k + 1][4])

\* _mm_aesenc_si128(a, RoundKey): ShiftRows, SubBytes, MixColumns on the
\* 16 bytes of a, then the xor with RoundKey.
mm_aesenc_si128(a, RoundKey) ==
    LET m == mixcolumns(subbytes(shiftrows(value_to_state(a))))
        k == value_to_state(RoundKey)
    IN  state_to_value(Bytes16(LAMBDA i : Xor(m[i + 1], k[i + 1])))

mm_unpacklo_epi32(a, b) == << a[1], b[1], a[2], b[2] >>
\* The low halves where the high ones are meant.
mm_unpackhi_epi32Low(a, b) == << a[1], b[1], a[2], b[2] >>
mm_unpackhi_epi32(a, b) == << a[3], b[3], a[4], b[4] >>

\* s[j] = _mm_aesenc_si128(s[j], rc[4*r + j]) for the four lanes.
aesencOpt(s, r) == Lanes4(LAMBDA j : mm_aesenc_si128(s[j + 1], rc(4 * r + j)))

\* The eight unpack assignments with the last two reading s[0] for tmp.
unpackMixNoTmp(s) ==
    LET s0a == mm_unpackhi_epi32(s[1], s[2])
        s1a == mm_unpacklo_epi32(s[3], s[4])
        s2a == mm_unpackhi_epi32(s[3], s[4])
        s3b == mm_unpacklo_epi32(s0a, s2a)
        s0b == mm_unpackhi_epi32(s0a, s2a)
        s2b == mm_unpackhi_epi32(s1a, s0b)
        s1b == mm_unpacklo_epi32(s1a, s0b)
    IN  << s0b, s1b, s2b, s3b >>

\* The eight unpack assignments that follow an odd round.
unpackMix(s) ==
    LET tmp == mm_unpacklo_epi32(s[1], s[2])
        s0a == mm_unpackhi_epi32(s[1], s[2])
        s1a == mm_unpacklo_epi32(s[3], s[4])
        s2a == mm_unpackhi_epi32(s[3], s[4])
        s3b == mm_unpacklo_epi32(s0a, s2a)
        s0b == mm_unpackhi_epi32(s0a, s2a)
        s2b == mm_unpackhi_epi32(s1a, tmp)
        s1b == mm_unpacklo_epi32(s1a, tmp)
    IN  << s0b, s1b, s2b, s3b >>

\* The loop of haraka512pi_opt from round r on.
RECURSIVE haraka512pi_optFrom(_, _)
haraka512pi_optFrom(s, r) ==
    IF r >= 10 THEN s
    ELSE Then(IF r % 2 = 1 THEN unpackMix(aesencOpt(s, r)) ELSE aesencOpt(s, r),
              LAMBDA u : haraka512pi_optFrom(u, r + 1))

haraka512pi_opt(hkstate) ==
    Then(haraka512pi_optFrom(Lanes4(LAMBDA j : state_to_value(hkstate[j + 1])), 0),
         LAMBDA s : Lanes4(LAMBDA j : value_to_state(s[j + 1])))

---------------------------------------------------------------------------
\* The evaluators.  s is the state passed by reference; an evaluator gives
\* the values it leaves in its reference arguments.

\* The assignments of the x3 guesses without the first one, s[1][1].
SetX3Partial(s, g) ==
    [s EXCEPT ![2][3] = g[2], ![2][7] = g[3], ![2][8] = g[4],
              ![2][9] = g[5], ![2][12] = g[6], ![2][13] = g[7], ![2][14] = g[8],
              ![3][2] = g[9], ![3][7] = g[10], ![3][12] = g[11], ![3][13] = g[12],
              ![4][1] = g[13], ![4][2] = g[14], ![4][6] = g[15], ![4][7] = g[16],
              ![4][11] = g[17], ![4][12] = g[18], ![4][13] = g[19], ![4][16] = g[20]]

\* The assignments of the x3 guesses, in computefwd_x5 and computebwd.
SetX3(s, g) ==
    [s EXCEPT ![2][2] = g[1], ![2][3] = g[2], ![2][7] = g[3], ![2][8] = g[4],
              ![2][9] = g[5], ![2][12] = g[6], ![2][13] = g[7], ![2][14] = g[8],
              ![3][2] = g[9], ![3][7] = g[10], ![3][12] = g[11], ![3][13] = g[12],
              ![4][1] = g[13], ![4][2] = g[14], ![4][6] = g[15], ![4][7] = g[16],
              ![4][11] = g[17], ![4][12] = g[18], ![4][13] = g[19], ![4][16] = g[20]]

\* The assignments of the x4 guesses.
SetX4(s, g) ==
    [s EXCEPT ![2][1] = g[1], ![2][2] = g[2], ![2][3] = g[3], ![2][4] = g[4],
              ![2][13] = g[5], ![2][14] = g[6], ![2][15] = g[7], ![2][16] = g[8],
              ![4][5] = g[9], ![4][6] = g[10], ![4][7] = g[11], ![4][8] = g[12],
              ![4][13] = g[13], ![4][14] = g[14], ![4][15] = g[15], ![4][16] = g[16]]

\* The assignments of the x5 guesses.
SetX5(s, g) ==
    [s EXCEPT ![3][2] = g[1], ![3][3] = g[2], ![3][4] = g[3], ![3][5] = g[4],
              ![3][7] = g[5], ![3][8] = g[6], ![3][9] = g[7], ![3][10] = g[8],
              ![3][12] = g[9], ![3][13] = g[10], ![3][14] = g[11], ![3][15] = g[12]]

\* The first three of the four assignments of dof: s[2][15] is left as found.
SetBwdDofPartial(s, dof) ==
    [s EXCEPT ![3][1] = dof[1], ![3][6] = dof[2], ![3][11] = dof[3]]

\* s[2][0] = dof[0]; s[2][5] = dof[1]; s[2][10] = dof[2]; s[2][15] = dof[3].
SetBwdDof(s, dof) ==
    [s EXCEPT ![3][1] = dof[1], ![3][6] = dof[2], ![3][11] = dof[3], ![3][16] = dof[4]]

\* computefwd_x5: the state s on return.
computefwd_x5(s, m, x3_guesses, x4_guesses, x5_guesses, dof) ==
    LET w2a_1 == dof[1]
        w2a_6 == dof[2]
        w2a_11 == dof[3]
        w2a_12 == dof[4]
        x3 == SetX3(
            [s EXCEPT
                ![1][2] = Xor(w2a_1, rccon(2, 0, 1)),
                ![1][7] = Xor(w2a_6, rccon(2, 0, 6)),
                ![1][12] = Xor(w2a_11, rccon(2, 0, 11)),
                ![1][13] = Xor(w2a_12, rccon(2, 0, 12)),
                ![1][1] = Xor(Xor(Xor(times201(m[1]), times68(m[2])), times203(w2a_1)), rccon(2, 0, 0)),
                ![1][3] = Xor(Xor(Xor(times68(m[1]), times201(m[2])), times71(w2a_1)), rccon(2, 0, 2)),
                ![1][6] = Xor(Xor(Xor(times68(m[3]), times201(m[4])), times203(w2a_6)), rccon(2, 0, 5)),
                ![1][8] = Xor(Xor(Xor(times201(m[3]), times68(m[4])), times71(w2a_6)), rccon(2, 0, 7)),
                ![1][9] = Xor(Xor(Xor(times201(m[5]), times68(m[6])), times71(w2a_11)), rccon(2, 0, 8)),
                ![1][11] = Xor(Xor(Xor(times68(m[5]), times201(m[6])), times203(w2a_11)), rccon(2, 0, 10)),
                ![1][14] = Xor(Xor(Xor(times68(m[7]), times201(m[8])), times71(w2a_12)), rccon(2, 0, 13)),
                ![1][16] = Xor(Xor(Xor(times201(m[7]), times68(m[8])), times203(w2a_12)), rccon(2, 0, 15))],
            x3_guesses)
        x4(x) == SetX4(mix512(aesencAll(x, 3)), x4_guesses)
        x5(x) == SetX5(<< aesenc(x[1], 4, 0), aesenc(x[2], 4, 1), x[3], aesenc(x[4], 4, 3) >>,
                       x5_guesses)
    IN  Then(Then(x3, x4), x5)

\* The four assignments of output_tuple in computefwd, from s[2].
fwd_output_tuple(z) ==
    << Xor(Xor(times7(z[1]), z[2]), times7(z[3])),
       Xor(Xor(z[5], times2(z[6])), times3(z[8])),
       Xor(Xor(times7(z[9]), times7(z[11])), z[12]),
       Xor(Xor(times3(z[14]), z[15]), times2(z[16])) >>

\* The four assignments of output_tuple in computebwd, from s[2].
bwd_output_tuple(w) ==
    << Xor(times2(w[3]), times3(w[4])),
       Xor(w[5], w[8]),
       Xor(times2(w[9]), times3(w[10])),
       Xor(w[14], w[15]) >>

\* computefwd: the state s on return and output_tuple.
computefwd(s, m, x3_guesses, x4_guesses, x5_guesses, dof) ==
    LET x6(x) == mix512(aesencAll(x, 5))
        x7(x) == << aesenc(x[1], 6, 0), x[2], aesenc(x[3], 6, 2), aesenc(x[4], 6, 3) >>
        x8(x) == mix512(<< aesenc(x[1], 7, 0), x[2], aesenc(x[3], 7, 2), aesenc(x[4], 7, 3) >>)
        z8(x) == [x EXCEPT ![3] = shiftrows(subbytes(x[3]))]
        out(x) == [s |-> x, output_tuple |-> fwd_output_tuple(x[3])]
    IN  Then(Then(Then(Then(Then(
            computefwd_x5(s, m, x3_guesses, x4_guesses, x5_guesses, dof),
            x6), x7), x8), z8), out)

\* computebwd: the state s on return and output_tuple.
computebwd(s, m, x3_guesses, x4_guesses, x5_guesses, dof) ==
    LET x4(x) == SetX4([x EXCEPT ![3] = invaesenc(x[3], 4, 2)], x4_guesses)
        x3(x) == SetX3(invaesencAll(invmix512(x), 3), x3_guesses)
        z2(x) ==
            LET w2a_3 == Xor(x[1][4], rccon(2, 0, 3))
                w2a_4 == Xor(x[1][5], rccon(2, 0, 4))
                w2a_9 == Xor(x[1][10], rccon(2, 0, 9))
                w2a_14 == Xor(x[1][15], rccon(2, 0, 14))
            IN  [x EXCEPT
                    ![1][2] = Xor(m[1], times13(w2a_3)),
                    ![1][4] = Xor(m[2], times14(w2a_3)),
                    ![1][5] = Xor(m[3], times14(w2a_4)),
                    ![1][7] = Xor(m[4], times13(w2a_4)),
                    ![1][10] = Xor(m[5], times14(w2a_9)),
                    ![1][12] = Xor(m[6], times13(w2a_9)),
                    ![1][13] = Xor(m[7], times13(w2a_14)),
                    ![1][15] = Xor(m[8], times14(w2a_14))]
        x2(x) == invmix512(<< invsbsr(x[1]), invaesenc(x[2], 2, 1),
                              invaesenc(x[3], 2, 2), invaesenc(x[4], 2, 3) >>)
        x1(x) == [x EXCEPT ![3] = invaesenc(x[3], 1, 2), ![4] = invaesenc(x[4], 1, 3)]
        x0(x) == invmix512([x EXCEPT ![3] = invaesenc(x[3], 0, 2),
                                     ![4] = invaesenc(x[4], 0, 3)])
        w8c(x) == [x EXCEPT ![3] = xor_rcons(invaesenc(x[3], 9, 2), 8, 2)]
        out(x) == [s |-> x, output_tuple |-> bwd_output_tuple(x[3])]
    IN  Then(Then(Then(Then(Then(Then(Then(Then(
            SetX5(SetBwdDof(s, dof), x5_guesses),
            x4), x3), z2), x2), x1), x0), w8c), out)

\* compute_x0_pix0_from_choices: the states s (x0) and pix0 on return.  pix0
\* is written from the __m128i values alone, all 16 bytes of each lane.
compute_x0_pix0_from_choices(s, pix0, m, x3_guesses, x4_guesses, x5_guesses, fwddof, bwddof) ==
    LET values(x) == Lanes4(LAMBDA j : state_to_value(x[j + 1]))
        states(v) == Lanes4(LAMBDA j : value_to_state(v[j + 1]))
        x3(x) == invaesencAll(invmix512(invaesencAll(x, 4)), 3)
        x1(x) == invaesencAll(invmix512(invaesencAll(x, 2)), 1)
        x0(x) == invaesencAll(x, 0)
        v6(v) == unpackMix(aesencOpt(v, 5))
        v8(v) == unpackMix(aesencOpt(aesencOpt(v, 6), 7))
        v10(v) == unpackMix(aesencOpt(aesencOpt(v, 8), 9))
        both(x5) ==
            [s |-> Then(Then(Then(x5, x3), x1), x0),
             pix0 |-> Then(Then(Then(Then(values(x5), v6), v8), v10), states)]
    IN  Then(SetBwdDof(computefwd_x5(s, m, x3_guesses, x4_guesses, x5_guesses, fwddof),
                       bwddof),
             both)

---------------------------------------------------------------------------
\* Result tables of the evaluators.

FpA == << 0, 0, 0, 0 >>
FpB == << 0, 0, 0, 1 >>
FpC == << 0, 0, 1, 0 >>
FpD == << 1, 0, 0, 1 >>

\* The table that repeats the sequence s over the indices 0 .. n-1.
Cyc(s, n) == [i \in 0 .. n - 1 |-> s[(i % Len(s)) + 1]]

\* Values of computefwd on the forward range.
FwdTables ==
    { Cyc(<< FpA, FpC, FpA, FpB, FpB, FpA >>, Size1),
      Cyc(<< FpC, FpC, FpB >>, Size1) }

\* Values of computebwd on the backward range.
BwdTables ==
    { Cyc(<< FpA, FpC, FpA, FpD, FpA, FpB >>, Size2),
      Cyc(<< FpD, FpB, FpD, FpD, FpD, FpD >>, Size2) }

\* The bytes of lane 2 that printcond and fullcond read.
CondBytes == { 2, 3, 4, 7, 8, 9, 13, 14 }

\* Lane 2 of the un-diffused feed-forward sum, at the bytes of CondBytes.
PixFull == [b \in CondBytes |-> 0]
PixPartial == [b \in CondBytes |-> IF b = 3 THEN 1 ELSE 0]
PixNone == [b \in CondBytes |-> IF b \in { 2, 13 } THEN 1 ELSE 0]
PixCases == << PixNone, PixPartial, PixFull >>

\* Values of the recombination on the pairs (forward index, backward index).
PixTables ==
    { [p \in (0 .. Size1 - 1) \X (0 .. Size2 - 1) |->
          PixCases[((p[1] + p[2]) % 3) + 1]] }

\* A test of the partial pattern that leaves out byte 13.
printcondNo13(pix0) ==
    /\ pix0[4] = 0 /\ pix0[7] = 0
    /\ pix0[8] = 0 /\ pix0[9] = 0
    /\ pix0[14] = 0

printcond(pix0) ==
    /\ pix0[4] = 0 /\ pix0[7] = 0
    /\ pix0[8] = 0 /\ pix0[9] = 0
    /\ pix0[13] = 0 /\ pix0[14] = 0

\* A test of the full pattern that reads byte 3 only.
fullcondOnly3(pix0) == pix0[3] = 0

fullcond(pix0) ==
    /\ pix0[2] = 0 /\ pix0[3] = 0 /\ pix0[13] = 0 /\ pix0[14] = 0
    /\ pix0[4] = 0 /\ pix0[7] = 0 /\ pix0[8] = 0 /\ pix0[9] = 0

\* bool verb = true in bwdsearch.
verb == TRUE

---------------------------------------------------------------------------
VARIABLES
    mainpc,       \* position of search(): "spawn1","join1","time1","spawn2","join2","time2","done"
    mainth,       \* index of the next thread search() starts or joins
    mtx,          \* std::mutex mtx: the set of threads that own it
    fwdvecs,      \* the table: shard key -> sequence of records <<m3,f0,f1,f2,f3>>
    fwdres,       \* what computefwd writes into res for the dof of each index
    bwdres,       \* what computebwd writes into res for the dof of each index
    pixres,       \* what the recombination and un-diffusion leave in pix0[2]
    seed,         \* the argument seed of the running call of search()
    fpc,          \* populatetable threads: position
    fi,           \* populatetable: loop variable i
    fbuffer,      \* populatetable: buffer
    fbufsize,     \* populatetable: bufsize
    bpc,          \* bwdsearch threads: position
    bi,           \* bwdsearch: loop variable i
    bbuffer,      \* bwdsearch: buffer
    bbufsize,     \* bwdsearch: bufsize
    matches,      \* bwdsearch: matches
    midx,         \* bwdsearch: position of the loop over matches (1-based)
    count_pairs,  \* bwdsearch: count_pairs
    pix0,         \* bwdsearch: << pix0[2] at the bytes of CondBytes >>, or NoSum
    out,          \* what each thread wrote to cout, in order
    fwdEvals,     \* history: the threads that called computefwd for index i
    bwdEvals,     \* history: the threads that called computebwd for index i
    probed,       \* history: backward indices whose record was looked up
    recombined,   \* history: pairs given to compute_x0_pix0_from_choices
    epc,          \* the evaluators called on their own: the next call
    guess,        \* the setting of x3_guesses, x4_guesses and x5_guesses
    fdof,         \* the forward dof of the calls
    bdof,         \* the backward dof of the calls
    fwds,         \* the array fwds of two executions of the calls
    bwds,         \* the array bwds of the two executions
    fwdout,       \* output_tuple of computefwd in the two executions
    bwdout,       \* output_tuple of computebwd in the two executions
    x0s,          \* the array x0 of the two executions
    pix0s,        \* the array pix0 of the two executions
    image,        \* haraka512pi on x0 of the first execution
    z8,           \* lane 2 after subbytes, shiftrows of round 8 on that x0
    ctx,          \* the locals each worker thread initialised when it started
    applied       \* one operation of the permutation applied on its own

vars == << mainpc, mainth, mtx, fwdvecs, fwdres, bwdres, pixres, seed,
           fpc, fi, fbuffer, fbufsize,
           bpc, bi, bbuffer, bbufsize, matches, midx, count_pairs, pix0,
           out, fwdEvals, bwdEvals, probed, recombined,
           epc, guess, fdof, bdof, fwds, bwds, fwdout, bwdout,
           x0s, pix0s, image, z8, ctx, applied >>

mainVars == << mainpc, mainth >>
callVars == << epc, guess, fdof, bdof, fwds, bwds, fwdout, bwdout,
               x0s, pix0s, image, z8 >>
evalVars == << fwdres, bwdres, pixres, seed, callVars, ctx, applied >>
fwdVars == << fpc, fi, fbuffer, fbufsize, fwdEvals >>
bwdVars == << bpc, bi, bbuffer, bbufsize, matches, midx, count_pairs, pix0,
              bwdEvals, probed, recombined >>

\* pix0 when it does not hold an un-diffused sum: before the first
\* recombination, and after a report has re-applied shiftrows and mix512.
NoSum == << >>

\* The writers of cout.
MainT == << "main", 0 >>
FwdT(w) == << "fwd", w >>
BwdT(w) == << "bwd", w >>
Threads == { MainT } \cup { FwdT(w) : w \in W } \cup { BwdT(w) : w \in W }

\* The locals of a worker thread that has not been started.
NoLocals == << >>

\* A stale copy of the first seed in the match-context.
LocalsFirstSeed(s) ==
    [m |-> << 0, 0, 0, 0, 0, 0, 0, FirstSeed % 256 >>,
     x3 |-> [i \in 1 .. 20 |-> 0],
     x4 |-> [i \in 1 .. 16 |-> 0],
     x5 |-> [i \in 1 .. 12 |-> 0]]

\* The locals that populatetable and bwdsearch initialise on entry, for the
\* argument seed = s: round2_match_through_mc = {0,0,0,0,0,0,0,(uint8_t) seed}
\* and the all-zero x3_guesses[20], x4_guesses[16], x5_guesses[12].
Locals(s) ==
    [m |-> << 0, 0, 0, 0, 0, 0, 0, s % 256 >>,
     x3 |-> [i \in 1 .. 20 |-> 0],
     x4 |-> [i \in 1 .. 16 |-> 0],
     x5 |-> [i \in 1 .. 12 |-> 0]]

\* No operation of the permutation has been applied on its own.
NoCall == << >>

\* No call of an evaluator on its own is under way.
CallsIdle ==
    /\ epc = "off"
    /\ guess = 0
    /\ fdof = << >>
    /\ bdof = << >>
    /\ fwds = << >>
    /\ bwds = << >>
    /\ fwdout = << >>
    /\ bwdout = << >>
    /\ x0s = << >>
    /\ pix0s = << >>
    /\ image = << >>
    /\ z8 = << >>

\* The state in which search() is entered.
SearchInit ==
    /\ mainpc = "spawn1"
    /\ mainth = 0
    /\ mtx = { }
    /\ fwdvecs = [k \in ShardKeys |-> << >>]
    /\ fwdres \in FwdTables
    /\ bwdres \in BwdTables
    /\ pixres \in PixTables
    /\ seed = FirstSeed
    /\ fpc = [w \in W |-> "none"]
    /\ fi = [w \in W |-> 0]
    /\ fbuffer = [w \in W |-> << >>]
    /\ fbufsize = [w \in W |-> 0]
    /\ bpc = [w \in W |-> "none"]
    /\ bi = [w \in W |-> 0]
    /\ bbuffer = [w \in W |-> << >>]
    /\ bbufsize = [w \in W |-> 0]
    /\ matches = [w \in W |-> << >>]
    /\ midx = [w \in W |-> 1]
    /\ count_pairs = [w \in W |-> 0]
    /\ pix0 = [w \in W |-> NoSum]
    /\ out = [t \in Threads |-> << >>]
    /\ fwdEvals = [i \in 0 .. Size1 - 1 |-> << >>]
    /\ bwdEvals = [i \in 0 .. Size2 - 1 |-> << >>]
    /\ probed = { }
    /\ recombined = { }
    /\ ctx = [t \in Threads \ { MainT } |-> NoLocals]

Init ==
    /\ SearchInit
    /\ CallsIdle
    /\ applied = NoCall

---------------------------------------------------------------------------
\* std::mutex mtx.

\* mtx.lock() by thread t: returns once no thread owns the mutex.
MtxLock(t) ==
    /\ mtx = { }
    /\ mtx' = { t }

\* mtx.unlock() by thread t.
MtxUnlock(t) == mtx' = mtx \ { t }

---------------------------------------------------------------------------
\* Positions of the two loops.

\* The position of a populatetable thread whose loop variable has the value
\* i: the loop test i < size1, then the test i % (1 << 24) == 0.
FwdLoop(i) ==
    IF i < Size1
       THEN IF i % ProgressStep = 0 THEN "plock" ELSE "body"
       ELSE "exit"

\* The position of a bwdsearch thread whose loop variable has the value i:
\* the loop test i < size2.
BwdLoop(i) == IF i < Size2 THEN "body" ELSE "exit"

---------------------------------------------------------------------------
\* The threads of search().

\* A join that returns although the thread is still running.
JoinNoWait(pcs, k) == TRUE

\* std::thread::join returns once the thread has returned from its function.
Joinable(pcs, k) == pcs[k] = "exit"

\* th1 = thread(populatetable, ...), ..., th4 = thread(populatetable, ...).
SpawnFwd ==
    /\ mainpc = "spawn1"
    /\ fpc' = [fpc EXCEPT ![mainth] = FwdLoop(0)]
    /\ ctx' = [ctx EXCEPT ![FwdT(mainth)] = Locals(seed)]
    /\ IF mainth = N - 1
          THEN mainpc' = "join1" /\ mainth' = 0
          ELSE mainpc' = mainpc /\ mainth' = mainth + 1
    /\ UNCHANGED << mtx, fwdvecs, fwdres, bwdres, pixres, seed, callVars,
                    applied, fi, fbuffer, fbufsize, fwdEvals, bwdVars, out >>

\* The forward threads are not joined before the backward phase.
JoinFwdSkipped ==
    /\ mainpc = "join1"
    /\ mainpc' = "time1"
    /\ mainth' = 0
    /\ UNCHANGED << mtx, fwdvecs, evalVars, fwdVars, bwdVars, out >>

\* th1.join(); th2.join(); th3.join(); th4.join(); after the forward phase.
JoinFwd ==
    /\ mainpc = "join1"
    /\ Joinable(fpc, mainth)
    /\ IF mainth = N - 1
          THEN mainpc' = "time1" /\ mainth' = 0
          ELSE mainpc' = mainpc /\ mainth' = mainth + 1
    /\ UNCHANGED << mtx, fwdvecs, evalVars, fwdVars, bwdVars, out >>

\* "Time of first step (seconds): ..."
TimeFirst ==
    /\ mainpc = "time1"
    /\ out' = [out EXCEPT ![MainT] = Append(@, << "time of first step" >>)]
    /\ mainpc' = "spawn2"
    /\ UNCHANGED << mainth, mtx, fwdvecs, evalVars, fwdVars, bwdVars >>

\* th1 = thread(bwdsearch, ...), ..., th4 = thread(bwdsearch, ...).
SpawnBwd ==
    /\ mainpc = "spawn2"
    /\ bpc' = [bpc EXCEPT ![mainth] = BwdLoop(0)]
    /\ ctx' = [ctx EXCEPT ![BwdT(mainth)] = Locals(seed)]
    /\ IF mainth = N - 1
          THEN mainpc' = "join2" /\ mainth' = 0
          ELSE mainpc' = mainpc /\ mainth' = mainth + 1
    /\ UNCHANGED << mtx, fwdvecs, fwdres, bwdres, pixres, seed, callVars,
                    applied, fwdVars, bi, bbuffer, bbufsize,
                    matches, midx, count_pairs, pix0, bwdEvals, probed,
                    recombined, out >>

\* th1.join(); th2.join(); th3.join(); th4.join(); after the backward phase.
JoinBwd ==
    /\ mainpc = "join2"
    /\ Joinable(bpc, mainth)
    /\ IF mainth = N - 1
          THEN mainpc' = "time2" /\ mainth' = 0
          ELSE mainpc' = mainpc /\ mainth' = mainth + 1
    /\ UNCHANGED << mtx, fwdvecs, evalVars, fwdVars, bwdVars, out >>

\* "Time of second step (seconds): ...", and search() returns.
TimeSecond ==
    /\ mainpc = "time2"
    /\ out' = [out EXCEPT ![MainT] = Append(@, << "time of second step" >>)]
    /\ mainpc' = "done"
    /\ UNCHANGED << mainth, mtx, fwdvecs, evalVars, fwdVars, bwdVars >>

---------------------------------------------------------------------------
\* populatetable(fwdvecs, ind, seed, size1), thread w has ind = w.

\* A partition by i % 2: two threads take every index.
OwnsHalf(i, ind) == i % 2 = ind % 2

\* if (i % 4 == ind), in both loops.
Owns(i, ind) == i % N = ind

\* The progress line is written without mtx.lock() before it.
FwdProgressNoLock(w) ==
    /\ fpc[w] = "plock"
    /\ fpc' = [fpc EXCEPT ![w] = "pprint"]
    /\ UNCHANGED << mainVars, mtx, fwdvecs, evalVars, fi, fbuffer, fbufsize,
                    fwdEvals, bwdVars, out >>

\* mtx.lock() before the progress line.
FwdProgressLock(w) ==
    /\ fpc[w] = "plock"
    /\ MtxLock(FwdT(w))
    /\ fpc' = [fpc EXCEPT ![w] = "pprint"]
    /\ UNCHANGED << mainVars, fwdvecs, evalVars, fi, fbuffer, fbufsize,
                    fwdEvals, bwdVars, out >>

\* "thread ind : log2(i) / log2(size1) fwd done", then mtx.unlock().
FwdProgressPrint(w) ==
    /\ fpc[w] = "pprint"
    /\ out' = [out EXCEPT ![FwdT(w)] = Append(@, << "fwd done", fi[w] >>)]
    /\ MtxUnlock(FwdT(w))
    /\ fpc' = [fpc EXCEPT ![w] = "body"]
    /\ UNCHANGED << mainVars, fwdvecs, evalVars, fi, fbuffer, fbufsize,
                    fwdEvals, bwdVars >>

\* The buffer entry {m0, m1, m2, m3, d0, d1, d2, d3} of a result and its dof.
BufEntry(res, dof) == res \o dof

\* One iteration of the loop up to the test of bufsize: the evaluation of
\* the dof of i when i % 4 == ind, and the entry pushed into the buffer.
FwdBody(w) ==
    /\ fpc[w] = "body"
    /\ IF Owns(fi[w], w)
          THEN LET fwddof == DofOf(fi[w])
                   res == fwdres[fi[w]]
               IN  /\ fwdEvals' = [fwdEvals EXCEPT ![fi[w]] = Append(@, w)]
                   /\ fbuffer' = [fbuffer EXCEPT ![w] = Append(@, BufEntry(res, fwddof))]
                   /\ fbufsize' = [fbufsize EXCEPT ![w] = @ + 1]
                   /\ IF fbufsize[w] + 1 > BufMax
                         THEN fpc' = [fpc EXCEPT ![w] = "flock"] /\ fi' = fi
                         ELSE /\ fi' = [fi EXCEPT ![w] = @ + 1]
                              /\ fpc' = [fpc EXCEPT ![w] = FwdLoop(fi[w] + 1)]
          ELSE /\ fi' = [fi EXCEPT ![w] = @ + 1]
               /\ fpc' = [fpc EXCEPT ![w] = FwdLoop(fi[w] + 1)]
               /\ UNCHANGED << fbuffer, fbufsize, fwdEvals >>
    /\ UNCHANGED << mainVars, mtx, fwdvecs, evalVars, bwdVars, out >>

\* The buffer is emptied without mtx.lock().
FwdFlushNoLock(w) ==
    /\ fpc[w] = "flock"
    /\ fpc' = [fpc EXCEPT ![w] = "insert"]
    /\ UNCHANGED << mainVars, mtx, fwdvecs, evalVars, fi, fbuffer, fbufsize,
                    fwdEvals, bwdVars, out >>

\* mtx.lock() before the buffer is emptied into the table.
FwdFlushLock(w) ==
    /\ fpc[w] = "flock"
    /\ MtxLock(FwdT(w))
    /\ fpc' = [fpc EXCEPT ![w] = "insert"]
    /\ UNCHANGED << mainVars, fwdvecs, evalVars, fi, fbuffer, fbufsize,
                    fwdEvals, bwdVars, out >>

\* A record pushed into the shard [v[0]][v[2]][v[1]].
PushRecordSwapped(tab, v) ==
    [tab EXCEPT ![<< v[1], v[3], v[2] >>] =
        Append(@, << v[4], v[5], v[6], v[7], v[8] >>)]

\* fwdvecs[v[0]][v[1]][v[2]].push_back({v[3], v[4], v[5], v[6], v[7]}).
PushRecord(tab, v) ==
    [tab EXCEPT ![<< v[1], v[2], v[3] >>] =
        Append(@, << v[4], v[5], v[6], v[7], v[8] >>)]

\* for (auto &v: buffer) { fwdvecs[...].push_back(...) }.
RECURSIVE InsertAll(_, _)
InsertAll(tab, buf) ==
    IF buf = << >> THEN tab
    ELSE InsertAll(PushRecord(tab, Head(buf)), Tail(buf))

\* The buffer is emptied into the table and the mutex is never unlocked.
FwdInsertNoUnlock(w) ==
    /\ fpc[w] = "insert"
    /\ fwdvecs' = InsertAll(fwdvecs, fbuffer[w])
    /\ fbufsize' = [fbufsize EXCEPT ![w] = 0]
    /\ fbuffer' = [fbuffer EXCEPT ![w] = << >>]
    /\ fi' = [fi EXCEPT ![w] = @ + 1]
    /\ fpc' = [fpc EXCEPT ![w] = FwdLoop(fi[w] + 1)]
    /\ UNCHANGED << mainVars, mtx, evalVars, fwdEvals, bwdVars, out >>

\* The buffer is emptied into the table and keeps its entries.
FwdInsertNoReset(w) ==
    /\ fpc[w] = "insert"
    /\ fwdvecs' = InsertAll(fwdvecs, fbuffer[w])
    /\ MtxUnlock(FwdT(w))
    /\ fi' = [fi EXCEPT ![w] = @ + 1]
    /\ fpc' = [fpc EXCEPT ![w] = FwdLoop(fi[w] + 1)]
    /\ UNCHANGED << mainVars, evalVars, fbuffer, fbufsize, fwdEvals, bwdVars, out >>

\* Every entry of the buffer is pushed into the table twice.
FwdInsertTwice(w) ==
    /\ fpc[w] = "insert"
    /\ fwdvecs' = InsertAll(InsertAll(fwdvecs, fbuffer[w]), fbuffer[w])
    /\ MtxUnlock(FwdT(w))
    /\ fbufsize' = [fbufsize EXCEPT ![w] = 0]
    /\ fbuffer' = [fbuffer EXCEPT ![w] = << >>]
    /\ fi' = [fi EXCEPT ![w] = @ + 1]
    /\ fpc' = [fpc EXCEPT ![w] = FwdLoop(fi[w] + 1)]
    /\ UNCHANGED << mainVars, evalVars, fwdEvals, bwdVars, out >>

\* The buffer is emptied into the table; mtx.unlock(), bufsize = 0,
\* buffer.clear(), and the loop goes on with i + 1.
FwdInsert(w) ==
    /\ fpc[w] = "insert"
    /\ fwdvecs' = InsertAll(fwdvecs, fbuffer[w])
    /\ MtxUnlock(FwdT(w))
    /\ fbufsize' = [fbufsize EXCEPT ![w] = 0]
    /\ fbuffer' = [fbuffer EXCEPT ![w] = << >>]
    /\ fi' = [fi EXCEPT ![w] = @ + 1]
    /\ fpc' = [fpc EXCEPT ![w] = FwdLoop(fi[w] + 1)]
    /\ UNCHANGED << mainVars, evalVars, fwdEvals, bwdVars, out >>

---------------------------------------------------------------------------
\* bwdsearch(rc, fwdvecs, ind, seed, size2), thread w has ind = w.

\* One iteration of the loop up to the test of bufsize: the evaluation of
\* the dof of i when i % 4 == ind and the entry pushed into the buffer; then
\* the test bufsize > 10000 and matches.clear().
BwdBody(w) ==
    /\ bpc[w] = "body"
    /\ LET own == Owns(bi[w], w)
           bwddof == DofOf(bi[w])
           res == bwdres[bi[w]]
           size == IF own THEN bbufsize[w] + 1 ELSE bbufsize[w]
       IN  /\ bwdEvals' = IF own THEN [bwdEvals EXCEPT ![bi[w]] = Append(@, w)]
                                 ELSE bwdEvals
           /\ bbuffer' = IF own THEN [bbuffer EXCEPT ![w] = Append(@, BufEntry(res, bwddof))]
                                ELSE bbuffer
           /\ bbufsize' = [bbufsize EXCEPT ![w] = size]
           /\ IF size > BufMax
                 THEN /\ matches' = [matches EXCEPT ![w] = << >>]
                      /\ bpc' = [bpc EXCEPT ![w] = "block"]
                      /\ bi' = bi
                 ELSE /\ matches' = matches
                      /\ bi' = [bi EXCEPT ![w] = @ + 1]
                      /\ bpc' = [bpc EXCEPT ![w] = BwdLoop(bi[w] + 1)]
    /\ UNCHANGED << mainVars, mtx, fwdvecs, evalVars, fwdVars, midx,
                    count_pairs, pix0, probed, recombined, out >>

\* mtx.lock() before the table is read.
BwdProbeLock(w) ==
    /\ bpc[w] = "block"
    /\ MtxLock(BwdT(w))
    /\ bpc' = [bpc EXCEPT ![w] = "probe"]
    /\ UNCHANGED << mainVars, fwdvecs, evalVars, fwdVars, bi, bbuffer, bbufsize,
                    matches, midx, count_pairs, pix0, bwdEvals, probed,
                    recombined, out >>

\* Every record of the shard is taken as a match, whatever its first byte.
ShardMatchesAll(shard, v) ==
    [k \in 1 .. Len(shard) |->
        << shard[k][2], shard[k][3], shard[k][4], shard[k][5],
           v[5], v[6], v[7], v[8] >>]

\* Only the record at the front of the shard is compared.
ShardMatchesFirst(shard, v) ==
    IF shard = << >> THEN << >>
    ELSE IF shard[1][1] = v[4]
            THEN << << shard[1][2], shard[1][3], shard[1][4], shard[1][5],
                       v[5], v[6], v[7], v[8] >> >>
            ELSE << >>

\* for (auto &vv : shard) if (vv[0] == v[3]) matches.push_back(
\*     {vv[1], vv[2], vv[3], vv[4], v[4], v[5], v[6], v[7]}).
RECURSIVE ShardMatches(_, _)
ShardMatches(shard, v) ==
    IF shard = << >> THEN << >>
    ELSE LET vv == Head(shard)
         IN  (IF vv[1] = v[4]
                 THEN << << vv[2], vv[3], vv[4], vv[5], v[5], v[6], v[7], v[8] >> >>
                 ELSE << >>)
             \o ShardMatches(Tail(shard), v)

\* for (auto &v: buffer) for (auto &vv : fwdvecs[v[0]][v[1]][v[2]]) ...
RECURSIVE ProbeAll(_, _)
ProbeAll(tab, buf) ==
    IF buf = << >> THEN << >>
    ELSE LET v == Head(buf)
         IN  ShardMatches(tab[<< v[1], v[2], v[3] >>], v) \o ProbeAll(tab, Tail(buf))

\* The backward dofs of the entries of a buffer, as indices.
BufIndices(buf) == { IndexOf(SubSeq(buf[k], 5, 8)) : k \in 1 .. Len(buf) }

\* The shards that the entries of a buffer address are emptied.
ClearShards(tab, buf) ==
    [k \in DOMAIN tab |->
        IF \E j \in 1 .. Len(buf) : k = SubSeq(buf[j], 1, 3) THEN << >> ELSE tab[k]]

\* A probe that takes the records out of the shards it reads.
BwdProbeConsume(w) ==
    /\ bpc[w] = "probe"
    /\ matches' = [matches EXCEPT ![w] = @ \o ProbeAll(fwdvecs, bbuffer[w])]
    /\ fwdvecs' = ClearShards(fwdvecs, bbuffer[w])
    /\ probed' = probed \cup BufIndices(bbuffer[w])
    /\ MtxUnlock(BwdT(w))
    /\ bbuffer' = [bbuffer EXCEPT ![w] = << >>]
    /\ bbufsize' = [bbufsize EXCEPT ![w] = 0]
    /\ midx' = [midx EXCEPT ![w] = 1]
    /\ bpc' = [bpc EXCEPT ![w] = "match"]
    /\ UNCHANGED << mainVars, evalVars, fwdVars, bi, count_pairs,
                    pix0, bwdEvals, recombined, out >>

\* The table is read for every entry of the buffer; mtx.unlock(),
\* buffer.clear(), bufsize = 0, and the loop over matches starts.
BwdProbe(w) ==
    /\ bpc[w] = "probe"
    /\ matches' = [matches EXCEPT ![w] = @ \o ProbeAll(fwdvecs, bbuffer[w])]
    /\ probed' = probed \cup BufIndices(bbuffer[w])
    /\ MtxUnlock(BwdT(w))
    /\ bbuffer' = [bbuffer EXCEPT ![w] = << >>]
    /\ bbufsize' = [bbufsize EXCEPT ![w] = 0]
    /\ midx' = [midx EXCEPT ![w] = 1]
    /\ bpc' = [bpc EXCEPT ![w] = "match"]
    /\ UNCHANGED << mainVars, fwdvecs, evalVars, fwdVars, bi, count_pairs,
                    pix0, bwdEvals, recombined, out >>

\* The head of for (auto &v: matches): count_pairs++ and the test
\* count_pairs % (1 << 22) == 0; after the last match the outer loop goes on
\* with i + 1.
BwdNextMatch(w) ==
    /\ bpc[w] = "match"
    /\ IF midx[w] > Len(matches[w])
          THEN /\ bi' = [bi EXCEPT ![w] = @ + 1]
               /\ bpc' = [bpc EXCEPT ![w] = BwdLoop(bi[w] + 1)]
               /\ count_pairs' = count_pairs
          ELSE /\ count_pairs' = [count_pairs EXCEPT ![w] = @ + 1]
               /\ bpc' = [bpc EXCEPT ![w] =
                     IF (count_pairs[w] + 1) % PairsStep = 0 THEN "clock" ELSE "recomb"]
               /\ bi' = bi
    /\ UNCHANGED << mainVars, mtx, fwdvecs, evalVars, fwdVars, bbuffer, bbufsize,
                    matches, midx, pix0, bwdEvals, probed, recombined, out >>

\* mtx.lock() before the line on the pairs done.
BwdPairsLock(w) ==
    /\ bpc[w] = "clock"
    /\ MtxLock(BwdT(w))
    /\ bpc' = [bpc EXCEPT ![w] = "cprint"]
    /\ UNCHANGED << mainVars, fwdvecs, evalVars, fwdVars, bi, bbuffer, bbufsize,
                    matches, midx, count_pairs, pix0, bwdEvals, probed,
                    recombined, out >>

\* "thread ind : log2(count_pairs) pairs done", then mtx.unlock().
BwdPairsPrint(w) ==
    /\ bpc[w] = "cprint"
    /\ out' = [out EXCEPT ![BwdT(w)] = Append(@, << "pairs done", count_pairs[w] >>)]
    /\ MtxUnlock(BwdT(w))
    /\ bpc' = [bpc EXCEPT ![w] = "recomb"]
    /\ UNCHANGED << mainVars, fwdvecs, evalVars, fwdVars, bi, bbuffer, bbufsize,
                    matches, midx, count_pairs, pix0, bwdEvals, probed,
                    recombined >>

\* The body of the loop over matches up to the test of the conditions:
\* fwddof and bwddof are read from the match, x0 and pix0 are computed, pix0
\* becomes the un-diffused feed-forward sum and is tested.
BwdRecombine(w) ==
    /\ bpc[w] = "recomb"
    /\ LET v == matches[w][midx[w]]
           fwddof == SubSeq(v, 1, 4)
           bwddof == SubSeq(v, 5, 8)
           p == pixres[<< IndexOf(fwddof), IndexOf(bwddof) >>]
       IN  /\ recombined' = recombined \cup { << fwddof, bwddof >> }
           /\ pix0' = [pix0 EXCEPT ![w] = << p >>]
           /\ IF (printcond(p) /\ verb) \/ fullcond(p)
                 THEN bpc' = [bpc EXCEPT ![w] = "rlock"] /\ midx' = midx
                 ELSE /\ bpc' = [bpc EXCEPT ![w] = "match"]
                      /\ midx' = [midx EXCEPT ![w] = @ + 1]
    /\ UNCHANGED << mainVars, mtx, fwdvecs, evalVars, fwdVars, bi, bbuffer,
                    bbufsize, matches, count_pairs, bwdEvals, probed, out >>

\* mtx.lock() before a solution is printed.
BwdReportLock(w) ==
    /\ bpc[w] = "rlock"
    /\ MtxLock(BwdT(w))
    /\ bpc' = [bpc EXCEPT ![w] = "report"]
    /\ UNCHANGED << mainVars, fwdvecs, evalVars, fwdVars, bi, bbuffer, bbufsize,
                    matches, midx, count_pairs, pix0, bwdEvals, probed,
                    recombined, out >>

\* The lines of one report: the banner and the seed when fullcond holds,
\* then x0 and MC-1(sum) for the match v.
ReportLines(p, v) ==
    (IF fullcond(p) THEN << << "FULL SOLUTION" >>, << "Seed", seed >> >> ELSE << >>)
    \o << << "Solution" >>, << "x0", v >>, << "MC-1(sum)", v >> >>

\* The thread returns after a full solution without mtx.unlock().
BwdReportNoUnlock(w) ==
    /\ bpc[w] = "report"
    /\ out' = [out EXCEPT ![BwdT(w)] = @ \o ReportLines(pix0[w][1], matches[w][midx[w]])]
    /\ pix0' = [pix0 EXCEPT ![w] = NoSum]
    /\ IF fullcond(pix0[w][1])
          THEN mtx' = mtx /\ bpc' = [bpc EXCEPT ![w] = "exit"]
          ELSE MtxUnlock(BwdT(w)) /\ bpc' = [bpc EXCEPT ![w] = "match"]
    /\ midx' = [midx EXCEPT ![w] = @ + 1]
    /\ UNCHANGED << mainVars, fwdvecs, evalVars, fwdVars, bi, bbuffer, bbufsize,
                    matches, count_pairs, bwdEvals, probed, recombined >>

\* The thread returns after it has printed a full solution.
BwdReportStop(w) ==
    /\ bpc[w] = "report"
    /\ out' = [out EXCEPT ![BwdT(w)] = @ \o ReportLines(pix0[w][1], matches[w][midx[w]])]
    /\ pix0' = [pix0 EXCEPT ![w] = NoSum]
    /\ MtxUnlock(BwdT(w))
    /\ midx' = [midx EXCEPT ![w] = @ + 1]
    /\ bpc' = [bpc EXCEPT ![w] = IF fullcond(pix0[w][1]) THEN "exit" ELSE "match"]
    /\ UNCHANGED << mainVars, fwdvecs, evalVars, fwdVars, bi, bbuffer, bbufsize,
                    matches, count_pairs, bwdEvals, probed, recombined >>

\* The report is printed, shiftrows and mix512 are re-applied to pix0,
\* mtx.unlock(), and the loop over matches goes on.
BwdReport(w) ==
    /\ bpc[w] = "report"
    /\ out' = [out EXCEPT ![BwdT(w)] = @ \o ReportLines(pix0[w][1], matches[w][midx[w]])]
    /\ pix0' = [pix0 EXCEPT ![w] = NoSum]
    /\ MtxUnlock(BwdT(w))
    /\ midx' = [midx EXCEPT ![w] = @ + 1]
    /\ bpc' = [bpc EXCEPT ![w] = "match"]
    /\ UNCHANGED << mainVars, fwdvecs, evalVars, fwdVars, bi, bbuffer, bbufsize,
                    matches, count_pairs, bwdEvals, probed, recombined >>

---------------------------------------------------------------------------
Next ==
    \/ SpawnFwd
    \/ JoinFwd
    \/ TimeFirst
    \/ SpawnBwd
    \/ JoinBwd
    \/ TimeSecond
    \/ \E w \in W : FwdProgressLock(w)
    \/ \E w \in W : FwdProgressPrint(w)
    \/ \E w \in W : FwdBody(w)
    \/ \E w \in W : FwdFlushLock(w)
    \/ \E w \in W : FwdInsert(w)
    \/ \E w \in W : BwdBody(w)
    \/ \E w \in W : BwdProbeLock(w)
    \/ \E w \in W : BwdProbe(w)
    \/ \E w \in W : BwdNextMatch(w)
    \/ \E w \in W : BwdPairsLock(w)
    \/ \E w \in W : BwdPairsPrint(w)
    \/ \E w \in W : BwdRecombine(w)
    \/ \E w \in W : BwdReportLock(w)
    \/ \E w \in W : BwdReport(w)

Spec == Init /\ [][Next]_vars

\* The scheduler runs a thread that can take a step: as long as some thread
\* is not blocked, a step is taken.  This is the least that a fair scheduling
\* of the threads gives; std::mutex promises no order among its waiters.
FairSpec == Spec /\ WF_vars(Next)

---------------------------------------------------------------------------
\* A caller that retries: search() is called again in the same process.

\* search(rc, seed + 1) after search(rc, seed) has returned.  The threads of
\* the new call start with fresh locals, and the seed gives the evaluators
\* another context; fwdvecs is a static local of search(), constructed by the
\* first call only, and cout is the stream of the process.
SearchAgain ==
    /\ mainpc = "done"
    /\ seed < FirstSeed + MaxRuns - 1
    /\ seed' = seed + 1
    /\ fwdres' \in FwdTables \ { fwdres }
    /\ bwdres' \in BwdTables \ { bwdres }
    /\ pixres' \in PixTables
    /\ mainpc' = "spawn1"
    /\ mainth' = 0
    /\ fpc' = [w \in W |-> "none"]
    /\ fi' = [w \in W |-> 0]
    /\ fbuffer' = [w \in W |-> << >>]
    /\ fbufsize' = [w \in W |-> 0]
    /\ bpc' = [w \in W |-> "none"]
    /\ bi' = [w \in W |-> 0]
    /\ bbuffer' = [w \in W |-> << >>]
    /\ bbufsize' = [w \in W |-> 0]
    /\ matches' = [w \in W |-> << >>]
    /\ midx' = [w \in W |-> 1]
    /\ count_pairs' = [w \in W |-> 0]
    /\ pix0' = [w \in W |-> NoSum]
    /\ fwdEvals' = [i \in 0 .. Size1 - 1 |-> << >>]
    /\ bwdEvals' = [i \in 0 .. Size2 - 1 |-> << >>]
    /\ probed' = { }
    /\ recombined' = { }
    /\ ctx' = [t \in Threads \ { MainT } |-> NoLocals]
    /\ UNCHANGED << mtx, fwdvecs, out, callVars, applied >>

RetryNext ==
    \/ Next
    \/ SearchAgain

\* The first call has the results that start with FpA on both sides.
RetryInit ==
    /\ Init
    /\ fwdres[0] = FpA
    /\ bwdres[0] = FpA

RetrySpec == RetryInit /\ [][RetryNext]_vars

---------------------------------------------------------------------------
\* The evaluators called on their own, as bwdsearch calls them for one
\* forward dof and one backward dof: computefwd, computebwd,
\* compute_x0_pix0_from_choices, and then haraka512pi on the x0 returned.
\* populatetable and bwdsearch never initialise fwds, bwds, x0 and pix0:
\* the calls are executed twice, from two contents of these arrays.

\* array<uint8_t, 8> round2_match_through_mc = {0,0,0,0,0,0,0, seed}.
round2_match_through_mc == << 0, 0, 0, 0, 0, 0, 0, seed >>

\* The guess vector of n bytes: all zero, as populatetable and bwdsearch
\* set it, under the setting 0.
Guesses(n) == [i \in 1 .. n |-> (guess * (29 * i + 7)) % 256]

\* The dofs given to the evaluators, by their indices i in the loops.  With
\* seed 53 and guesses 0 the k-th forward index and the k-th backward index
\* have the same output_tuple.
FwdDofs ==
    { DofOf(<< 222948, 15643, 217563, 35399, 86843 >>[k]) : k \in 1 .. NumFwdDofs }

BwdDofs ==
    { DofOf(<< 26975, 34225, 36619, 51992, 52952 >>[k]) : k \in 1 .. NumBwdDofs }

\* Memory that was never written: byte i of lane j under the pattern k.
\* The pattern 0 is the zero-filled page.
Pattern(k) ==
    LET lane(j) == Bytes16(LAMBDA i : (k * (37 * (16 * j + i) + 101)) % 256)
    IN  << lane(0), lane(1), lane(2), lane(3) >>

\* The tuple << f(1), f(2) >>: the two executions.
Both(f(_)) == << f(1), f(2) >>

\* The four arrays of a worker whose memory held the pattern k: as found
\* (left = FALSE), or as an earlier iteration of the loop left them, which
\* called the evaluators for the dofs of the indices k and k + 1.
ArraysOf(k, left) ==
    IF ~left
    THEN [fwds |-> Pattern(k), bwds |-> Pattern(k + 1),
          x0 |-> Pattern(k + 2), pix0 |-> Pattern(k + 3)]
    ELSE Then(compute_x0_pix0_from_choices(Pattern(k + 2), Pattern(k + 3),
                  round2_match_through_mc, Guesses(20), Guesses(16), Guesses(12),
                  DofOf(k), DofOf(k + 1)),
              LAMBDA c :
                  [fwds |-> computefwd(Pattern(k), round2_match_through_mc,
                                Guesses(20), Guesses(16), Guesses(12), DofOf(k)).s,
                   bwds |-> computebwd(Pattern(k + 1), round2_match_through_mc,
                                Guesses(20), Guesses(16), Guesses(12), DofOf(k + 1)).s,
                   x0 |-> c.s,
                   pix0 |-> c.pix0])

\* The first execution finds zero-filled memory, the second one any of the
\* other contents.
EvalInit ==
    /\ SearchInit
    /\ fwdres[0] = FpA
    /\ bwdres[0] = FpA
    /\ epc = "computefwd"
    /\ guess \in 0 .. NumGuess - 1
    /\ fdof \in FwdDofs
    /\ bdof \in BwdDofs
    /\ \E k \in 1 .. NumScratch, left \in BOOLEAN :
          \E a \in { Both(LAMBDA c : ArraysOf((c - 1) * k, c = 2 /\ left)) } :
              /\ fwds = << a[1].fwds, a[2].fwds >>
              /\ bwds = << a[1].bwds, a[2].bwds >>
              /\ x0s = << a[1].x0, a[2].x0 >>
              /\ pix0s = << a[1].pix0, a[2].pix0 >>
    /\ fwdout = << >>
    /\ bwdout = << >>
    /\ image = << >>
    /\ z8 = << >>
    /\ applied = NoCall

engineVars == << mainVars, mtx, fwdvecs, fwdres, bwdres, pixres, seed,
                 fwdVars, bwdVars, out, ctx >>
searchVars == << engineVars, applied >>

\* computefwd(fwds, ..., fwddof, res) in both executions.
CallComputefwd ==
    /\ epc = "computefwd"
    /\ \E r \in { Both(LAMBDA c : computefwd(fwds[c], round2_match_through_mc,
                             Guesses(20), Guesses(16), Guesses(12), fdof)) } :
          /\ fwds' = << r[1].s, r[2].s >>
          /\ fwdout' = << r[1].output_tuple, r[2].output_tuple >>
    /\ epc' = "computebwd"
    /\ UNCHANGED << searchVars, guess, fdof, bdof, bwds, bwdout, x0s, pix0s, image, z8 >>

\* computebwd(bwds, ..., bwddof, res) in both executions.
CallComputebwd ==
    /\ epc = "computebwd"
    /\ \E r \in { Both(LAMBDA c : computebwd(bwds[c], round2_match_through_mc,
                             Guesses(20), Guesses(16), Guesses(12), bdof)) } :
          /\ bwds' = << r[1].s, r[2].s >>
          /\ bwdout' = << r[1].output_tuple, r[2].output_tuple >>
    /\ epc' = "recombine"
    /\ UNCHANGED << searchVars, guess, fdof, bdof, fwds, fwdout, x0s, pix0s, image, z8 >>

\* compute_x0_pix0_from_choices(rc, x0, pix0, ..., fwddof, bwddof) in both
\* executions.
CallRecombine ==
    /\ epc = "recombine"
    /\ \E r \in { Both(LAMBDA c : compute_x0_pix0_from_choices(x0s[c], pix0s[c],
                             round2_match_through_mc,
                             Guesses(20), Guesses(16), Guesses(12), fdof, bdof)) } :
          /\ x0s' = << r[1].s, r[2].s >>
          /\ pix0s' = << r[1].pix0, r[2].pix0 >>
    /\ epc' = "haraka512pi"
    /\ UNCHANGED << searchVars, guess, fdof, bdof, fwds, bwds, fwdout, bwdout, image, z8 >>

\* haraka512pi on a copy of x0; z8 is lane 2 of its state after the rounds
\* 0..7, with subbytes and shiftrows of round 8 applied.
CallHaraka512pi ==
    /\ epc = "haraka512pi"
    /\ image' = haraka512pi(x0s[1])
    /\ z8' = shiftrows(subbytes(haraka512piRounds(x0s[1], 0, 8)[3]))
    /\ epc' = "done"
    /\ UNCHANGED << searchVars, guess, fdof, bdof, fwds, bwds, fwdout, bwdout,
                    x0s, pix0s >>

EvalNext ==
    \/ CallComputefwd
    \/ CallComputebwd
    \/ CallRecombine
    \/ CallHaraka512pi

EvalSpec == EvalInit /\ [][EvalNext]_vars

---------------------------------------------------------------------------
\* The operations of the permutation applied on their own, each one to a
\* state hkstate of four lanes of sixteen bytes: applied.arg is the state
\* before the call, applied.res what the call left in the lane j it was
\* given (or in the four lanes, for an operation on the whole state).

\* The states the operations are applied to.
Blocks == { Pattern(k) : k \in 0 .. NumBlocks - 1 }

PrimInit ==
    /\ SearchInit
    /\ CallsIdle
    /\ fwdres[0] = FpA
    /\ bwdres[0] = FpA
    /\ applied \in { [op |-> "none", r |-> 0, j |-> 0, arg |-> s, res |-> s] :
                        s \in Blocks }

\* The call op, for round r and lane j, left res.  Each state drawn from
\* Blocks is given to one call.
Applied(op, r, j, res) ==
    /\ applied.op = "none"
    /\ applied' = [op |-> op, r |-> r, j |-> j, arg |-> applied.arg, res |-> res]
    /\ UNCHANGED << engineVars, callVars >>

\* sbsr(s) on lane j.
ApplySbsr ==
    \E j \in 0 .. 3 : Applied("sbsr", 0, j, sbsr(applied.arg[j + 1]))

\* invsbsr(s) on lane j.
ApplyInvsbsr ==
    \E j \in 0 .. 3 : Applied("invsbsr", 0, j, invsbsr(applied.arg[j + 1]))

\* mixcolumns(s) on lane j.
ApplyMixcolumns ==
    \E j \in 0 .. 3 : Applied("mixcolumns", 0, j, mixcolumns(applied.arg[j + 1]))

\* invmixcolumns(s) on lane j.
ApplyInvmixcolumns ==
    \E j \in 0 .. 3 :
        Applied("invmixcolumns", 0, j, invmixcolumns(applied.arg[j + 1]))

\* mcrc(s, r, j) on lane j.
ApplyMcrc ==
    \E r \in 0 .. 9, j \in 0 .. 3 :
        Applied("mcrc", r, j, mcrc(applied.arg[j + 1], r, j))

\* invmcrc(s, r, j) on lane j.
ApplyInvmcrc ==
    \E r \in 0 .. 9, j \in 0 .. 3 :
        Applied("invmcrc", r, j, invmcrc(applied.arg[j + 1], r, j))

\* aesenc(s, r, j) on lane j.
ApplyAesenc ==
    \E r \in 0 .. 9, j \in 0 .. 3 :
        Applied("aesenc", r, j, aesenc(applied.arg[j + 1], r, j))

\* invaesenc(s, r, j) on lane j.
ApplyInvaesenc ==
    \E r \in 0 .. 9, j \in 0 .. 3 :
        Applied("invaesenc", r, j, invaesenc(applied.arg[j + 1], r, j))

\* s[j] = _mm_aesenc_si128(s[j], rc[4*r + j]) on the value of lane j.
ApplyMmAesenc ==
    \E r \in 0 .. 9, j \in 0 .. 3 :
        Applied("_mm_aesenc_si128", r, j,
                value_to_state(mm_aesenc_si128(state_to_value(applied.arg[j + 1]),
                                               rc(4 * r + j))))

\* mix512(hkstate).
ApplyMix512 ==
    Applied("mix512", 0, 0, mix512(applied.arg))

\* invmix512(hkstate).
ApplyInvmix512 ==
    Applied("invmix512", 0, 0, invmix512(applied.arg))

\* haraka512pi(hkstate).
ApplyHaraka512pi ==
    Applied("haraka512pi", 0, 0, haraka512pi(applied.arg))

\* haraka512pi_opt(rc, hkstate).
ApplyHaraka512pi_opt ==
    Applied("haraka512pi_opt", 0, 0, haraka512pi_opt(applied.arg))

PrimNext ==
    \/ ApplySbsr
    \/ ApplyInvsbsr
    \/ ApplyMixcolumns
    \/ ApplyInvmixcolumns
    \/ ApplyMcrc
    \/ ApplyInvmcrc
    \/ ApplyAesenc
    \/ ApplyInvaesenc
    \/ ApplyMmAesenc
    \/ ApplyMix512
    \/ ApplyInvmix512
    \/ ApplyHaraka512pi
    \/ ApplyHaraka512pi_opt

PrimSpec == PrimInit /\ [][PrimNext]_vars

---------------------------------------------------------------------------
\* The states of the orchestrator, read off the position of search().

\* Idle, PopulatingTable, TablePopulated, Searching, Done as 0 .. 4.
PhaseRank ==
    CASE mainpc = "spawn1" /\ mainth = 0 -> 0
      [] mainpc = "spawn1" /\ mainth > 0 -> 1
      [] mainpc = "join1" -> 1
      [] mainpc = "time1" -> 2
      [] mainpc = "spawn2" /\ mainth = 0 -> 2
      [] mainpc = "spawn2" /\ mainth > 0 -> 3
      [] mainpc = "join2" -> 3
      [] OTHER -> 4

FwdRunning(w) == fpc[w] \notin { "none", "exit" }
BwdRunning(w) == bpc[w] \notin { "none", "exit" }
FwdAllExited == \A w \in W : fpc[w] = "exit"
BwdAllExited == \A w \in W : bpc[w] = "exit"

\* The record that populatetable builds for index i, and its shard.
RecordOf(i) == << fwdres[i][4] >> \o DofOf(i)
ShardOf(fp) == SubSeq(fp, 1, 3)
InShard(r, k) == \E j \in 1 .. Len(fwdvecs[k]) : fwdvecs[k][j] = r

---------------------------------------------------------------------------
\* The claims.

\* C1: once all four populatetable threads have been joined, the table holds,
\* for every index i of [0, size1), the record computed for the dof of i.
C1_TableComplete ==
    PhaseRank >= 2 =>
        \A i \in 0 .. Size1 - 1 : InShard(RecordOf(i), ShardOf(fwdres[i]))

\* C2: once the backward threads have been joined, every backward index
\* that was evaluated has been looked up, and every pair of a record of the
\* table and an evaluated backward dof with equal fingerprints has been
\* recombined.
C2_AllMatchesRecombined ==
    PhaseRank = 4 =>
        \A b \in 0 .. Size2 - 1 :
            bwdEvals[b] # << >> =>
                /\ b \in probed
                /\ \A k \in ShardKeys : \A j \in 1 .. Len(fwdvecs[k]) :
                       k \o << fwdvecs[k][j][1] >> = bwdres[b] =>
                           << SubSeq(fwdvecs[k][j], 2, 5), DofOf(b) >> \in recombined

\* C3: a bwdsearch thread exists, and so reads the table, only after all
\* four populatetable threads have returned; no insert overlaps a lookup.
C3_PhaseBarrier ==
    /\ (\E w \in W : bpc[w] # "none") => FwdAllExited
    /\ \A w, v \in W : ~(bpc[w] = "probe" /\ fpc[v] = "insert")

C3_Witness ==
    \E w \in W : bpc[w] = "probe" /\ \E k \in ShardKeys : fwdvecs[k] # << >>

\* C4: a thread that inserts into or reads the table owns the mutex, at most
\* one thread owns the mutex, and so at most one thread is at the table.
AtTable == { FwdT(w) : w \in { v \in W : fpc[v] = "insert" } }
           \cup { BwdT(w) : w \in { v \in W : bpc[v] = "probe" } }

C4_MutualExclusion ==
    /\ AtTable \subseteq mtx
    /\ Cardinality(mtx) <= 1
    /\ Cardinality(AtTable) <= 1

C4_Witness ==
    \E w, v \in W : w # v /\ fpc[w] = "insert" /\ fpc[v] = "flock"

\* C5: in both phases index i is evaluated by thread i mod 4 only, at most
\* once, and exactly once by the time the threads of the phase are joined.
C5_Partition ==
    /\ \A i \in 0 .. Size1 - 1 :
          /\ fwdEvals[i] \in { << >>, << i % N >> }
          /\ PhaseRank >= 2 => fwdEvals[i] = << i % N >>
    /\ \A i \in 0 .. Size2 - 1 :
          /\ bwdEvals[i] \in { << >>, << i % N >> }
          /\ PhaseRank = 4 => bwdEvals[i] = << i % N >>

C5_Witness ==
    /\ mainpc = "done"
    /\ \A i \in 0 .. Size1 - 1 : fwdEvals[i] = << i % N >>
    /\ \A i \in 0 .. Size2 - 1 : bwdEvals[i] = << i % N >>

\* C6: every pair in a matches list, and every pair given to the
\* recombination, has equal forward and backward fingerprints on all 4 bytes.
TrueMatch(fwddof, bwddof) ==
    /\ IndexOf(fwddof) \in 0 .. Size1 - 1
    /\ IndexOf(bwddof) \in 0 .. Size2 - 1
    /\ fwdres[IndexOf(fwddof)] = bwdres[IndexOf(bwddof)]

C6_OnlyTrueMatches ==
    /\ \A w \in W : \A k \in 1 .. Len(matches[w]) :
          TrueMatch(SubSeq(matches[w][k], 1, 4), SubSeq(matches[w][k], 5, 8))
    /\ \A p \in recombined : TrueMatch(p[1], p[2])

\* A match was recombined by a thread that also read a record of the same
\* shard with another 4th byte.
C6_Witness ==
    /\ recombined # { }
    /\ \E w \in W : \E k \in 1 .. Len(matches[w]) :
          LET bfp == bwdres[IndexOf(SubSeq(matches[w][k], 5, 8))]
          IN  \E j \in 1 .. Len(fwdvecs[ShardOf(bfp)]) :
                  fwdvecs[ShardOf(bfp)][j][1] # bfp[4]

\* C7: every record (m3, f0, f1, f2, f3) of shard [a][b][c] satisfies
\* computefwd(f0, f1, f2, f3) = (a, b, c, m3).
C7_InsertPlacement ==
    \A k \in ShardKeys : \A j \in 1 .. Len(fwdvecs[k]) :
        LET r == fwdvecs[k][j]
            i == IndexOf(SubSeq(r, 2, 5))
        IN  /\ i \in 0 .. Size1 - 1
            /\ fwdres[i] = k \o << r[1] >>

C7_Witness ==
    \E k1, k2 \in ShardKeys :
        /\ k1 # k2
        /\ fwdvecs[k1] # << >>
        /\ Len(fwdvecs[k2]) >= 2

\* C8: a run starts Idle, every step keeps the orchestrator state or moves
\* it to the next one, and no populatetable thread runs while Searching.
C8_PhaseOrder ==
    /\ PhaseRank = 0
    /\ [][PhaseRank' = PhaseRank \/ PhaseRank' = PhaseRank + 1]_vars
    /\ [](PhaseRank >= 3 => \A w \in W : ~FwdRunning(w))

C8_Witness == PhaseRank = 4 /\ mainpc = "done"

\* C9: under fair scheduling of the threads every run reaches Done, with
\* all eight worker threads returned.
C9_Termination == <>(mainpc = "done" /\ FwdAllExited /\ BwdAllExited)

C9_Witness ==
    /\ mainpc = "done" /\ FwdAllExited /\ BwdAllExited
    /\ \E w \in W : out[BwdT(w)] # << >>

\* C10: no step taken once the forward threads are joined changes the
\* table, so the table at Done is the table at TablePopulated.
C10_TableReadOnly == [][PhaseRank >= 2 => fwdvecs' = fwdvecs]_vars

C10_Witness ==
    /\ mainpc = "done"
    /\ probed # { }
    /\ recombined # { }
    /\ \E k \in ShardKeys : fwdvecs[k] # << >>

\* C11: whenever search() is about to start its populatetable threads the
\* table is empty, so a run reads no record of an earlier run.
C11_TableFreshPerRun ==
    PhaseRank = 0 => \A k \in ShardKeys : fwdvecs[k] = << >>

\* The positions of the table that hold a record.
TableSlots ==
    UNION { { << k, j >> : j \in 1 .. Len(fwdvecs[k]) } : k \in ShardKeys }

\* C12: within a run the table never holds more than size1 records, and no
\* two positions of the table hold a record with the same forward dof.
C12_TableBounded ==
    /\ Cardinality(TableSlots) <= Size1
    /\ \A p, q \in TableSlots :
          SubSeq(fwdvecs[p[1]][p[2]], 2, 5) = SubSeq(fwdvecs[q[1]][q[2]], 2, 5)
              => p = q

\* Two threads have emptied their buffers and the forward phase is over.
C12_Witness ==
    /\ PhaseRank >= 2
    /\ Cardinality(TableSlots) >= 2 * (BufMax + 1)

\* The two target patterns on lane 2 of the un-diffused feed-forward sum.
PartialPattern(p) == \A b \in { 4, 7, 8, 9, 13, 14 } : p[b] = 0
FullPattern(p) == PartialPattern(p) /\ p[2] = 0 /\ p[3] = 0

\* The un-diffused sum of the candidate of the match v.
SumOf(v) == pixres[<< IndexOf(SubSeq(v, 1, 4)), IndexOf(SubSeq(v, 5, 8)) >>]

\* The positions of the output of thread t that hold the line "x0" of v.
DumpsOf(t, v) ==
    { k \in 1 .. Len(out[t]) : out[t][k][1] = "x0" /\ out[t][k][2] = v }

\* A thread has tested the candidate of v and has not printed it yet.
ReportPending(v) ==
    \E w \in W : bpc[w] \in { "rlock", "report" } /\ matches[w][midx[w]] = v

\* C13: a recombined candidate is dumped (x0 and MC-1(sum)) iff it has the
\* partial pattern; the dump is preceded by the FULL SOLUTION banner and the
\* seed iff it has the full pattern; a candidate with neither pattern leaves
\* no line, and no banner stands without its dump.
C13_ReportingThresholds ==
    /\ \A pr \in recombined :
          LET v == pr[1] \o pr[2]
              dumped == \E w \in W : DumpsOf(BwdT(w), v) # { }
          IN  /\ PartialPattern(SumOf(v)) <=> (dumped \/ ReportPending(v))
              /\ BwdAllExited => (PartialPattern(SumOf(v)) <=> dumped)
    /\ \A w \in W : \A k \in 1 .. Len(out[BwdT(w)]) :
          LET o == out[BwdT(w)]
          IN  /\ o[k][1] = "x0" =>
                    /\ << SubSeq(o[k][2], 1, 4), SubSeq(o[k][2], 5, 8) >> \in recombined
                    /\ PartialPattern(SumOf(o[k][2]))
                    /\ o[k - 1] = << "Solution" >>
                    /\ o[k + 1] = << "MC-1(sum)", o[k][2] >>
                    /\ FullPattern(SumOf(o[k][2])) <=>
                           /\ k >= 4
                           /\ o[k - 3] = << "FULL SOLUTION" >>
                           /\ o[k - 2] = << "Seed", seed >>
              /\ o[k][1] = "FULL SOLUTION" =>
                    /\ k + 3 <= Len(o)
                    /\ o[k + 1][1] = "Seed"
                    /\ o[k + 2][1] = "Solution"
                    /\ o[k + 3][1] = "x0"
              /\ o[k][1] = "Seed" => k > 1 /\ o[k - 1][1] = "FULL SOLUTION"
              /\ o[k][1] = "Solution" => k < Len(o) /\ o[k + 1][1] = "x0"
              /\ o[k][1] = "MC-1(sum)" => k > 1 /\ o[k - 1][1] = "x0"

\* All threads have returned after candidates of the three kinds were
\* recombined: one reported with the banner, one without, one not at all.
C13_Witness ==
    /\ mainpc = "done"
    /\ \E a, b, c \in recombined :
          /\ FullPattern(SumOf(a[1] \o a[2]))
          /\ PartialPattern(SumOf(b[1] \o b[2])) /\ ~FullPattern(SumOf(b[1] \o b[2]))
          /\ ~PartialPattern(SumOf(c[1] \o c[2]))
          /\ \E w \in W : DumpsOf(BwdT(w), a[1] \o a[2]) # { }
          /\ \E w \in W : DumpsOf(BwdT(w), b[1] \o b[2]) # { }

\* Thread w has printed the banner of a full solution.
FullReported(w) ==
    \E k \in 1 .. Len(out[BwdT(w)]) : out[BwdT(w)][k][1] = "FULL SOLUTION"

\* C14: a report does not end or shorten the run: the loop variable of a
\* bwdsearch thread only moves by one, a thread returns only with
\* i = size2, whatever it has reported, and at Done every index of the
\* backward range has been evaluated.
C14_NoCancellation ==
    /\ [][\A w \in W : bi'[w] \in { bi[w], bi[w] + 1 }]_vars
    /\ [](\A w \in W : bpc[w] = "exit" => bi[w] = Size2)
    /\ [](mainpc = "done" =>
             \A b \in 0 .. Size2 - 1 : bwdEvals[b] = << b % N >>)

\* A thread that printed a full solution is back in its loop, with another
\* thread still running.
C14_Witness ==
    \E w, v \in W :
        /\ w # v
        /\ FullReported(w)
        /\ bpc[w] = "body"
        /\ bpc[v] = "body"

\* No line of a report in the output of any thread.
NoSolutionText ==
    \A w \in W : \A k \in 1 .. Len(out[BwdT(w)]) :
        out[BwdT(w)][k][1] \notin { "FULL SOLUTION", "Seed", "Solution", "x0", "MC-1(sum)" }

\* No recombined candidate has the partial (or the full) pattern.
NoneQualifies == \A pr \in recombined : ~PartialPattern(SumOf(pr[1] \o pr[2]))

\* C15: every run reaches Done; as long as no recombined candidate has the
\* partial pattern no report line is printed, and at Done all threads have
\* returned and the mutex is free.
C15_ExhaustionIsNormal ==
    /\ <>(mainpc = "done")
    /\ [](NoneQualifies => NoSolutionText)
    /\ [](mainpc = "done" => FwdAllExited /\ BwdAllExited /\ mtx = { })

\* A run is over in which candidates were recombined and none qualified.
C15_Witness ==
    /\ mainpc = "done"
    /\ recombined # { }
    /\ NoneQualifies
    /\ NoSolutionText

\* The indices below size that thread ind takes, and those of them that it
\* hands to the table: its buffer is emptied each time it holds BufMax + 1
\* entries, so the entries after the last full buffer stay behind.
OwnedBy(ind, size) == { i \in 0 .. size - 1 : Owns(i, ind) }
Handled(size) ==
    { i \in 0 .. size - 1 :
        LET own == OwnedBy(i % N, size)
            rank == Cardinality({ j \in own : j <= i })
        IN  rank <= (Cardinality(own) \div (BufMax + 1)) * (BufMax + 1) }

\* The matches of a run, from the results of the evaluators alone.
ExpectedMatches ==
    { << DofOf(f), DofOf(b) >> :
        << f, b >> \in { q \in Handled(Size1) \X Handled(Size2) :
                             fwdres[q[1]] = bwdres[q[2]] } }

\* The candidates whose dump is in the output of some thread.
Dumped ==
    UNION { { << SubSeq(out[BwdT(w)][k][2], 1, 4), SubSeq(out[BwdT(w)][k][2], 5, 8) >> :
                k \in { j \in 1 .. Len(out[BwdT(w)]) : out[BwdT(w)][j][1] = "x0" } } :
            w \in W }

\* C16: whatever the interleaving of the threads, the set of matches
\* recombined by the end of a run, and the set of candidates reported, are
\* functions of the results of the evaluators: no match is recombined that
\* the results do not give, and at Done none of them is missing.
C16_OrderIndependence ==
    /\ recombined \subseteq ExpectedMatches
    /\ mainpc = "done" =>
          /\ recombined = ExpectedMatches
          /\ Dumped = { pr \in ExpectedMatches : PartialPattern(SumOf(pr[1] \o pr[2])) }

\* A run is over in which a shard holds a record of thread 1 in front of a
\* record of thread 0, and more than one match was recombined.
C16_Witness ==
    /\ mainpc = "done"
    /\ Cardinality(recombined) >= 2
    /\ \E k \in ShardKeys : \E i, j \in 1 .. Len(fwdvecs[k]) :
          /\ i < j
          /\ IndexOf(SubSeq(fwdvecs[k][i], 2, 5)) % N = 1
          /\ IndexOf(SubSeq(fwdvecs[k][j], 2, 5)) % N = 0

\* C17: bufsize is the length of the buffer and never exceeds the threshold
\* by more than one; a thread is in the critical section that inserts into
\* or probes the table only with a buffer above the threshold; the step that
\* inserts or probes handles every entry of the buffer and leaves the
\* buffer empty with bufsize = 0.
C17_Batching ==
    /\ [](\A w \in W :
            /\ fbufsize[w] = Len(fbuffer[w]) /\ Len(fbuffer[w]) <= BufMax + 1
            /\ bbufsize[w] = Len(bbuffer[w]) /\ Len(bbuffer[w]) <= BufMax + 1
            /\ fpc[w] \in { "flock", "insert" } => Len(fbuffer[w]) > BufMax
            /\ bpc[w] \in { "block", "probe" } => Len(bbuffer[w]) > BufMax)
    /\ [][\A w \in W :
            /\ (fpc[w] = "insert" /\ fpc'[w] # "insert") =>
                  /\ fbuffer'[w] = << >> /\ fbufsize'[w] = 0
                  /\ \A k \in 1 .. Len(fbuffer[w]) :
                        \E j \in 1 .. Len(fwdvecs'[SubSeq(fbuffer[w][k], 1, 3)]) :
                            fwdvecs'[SubSeq(fbuffer[w][k], 1, 3)][j] = SubSeq(fbuffer[w][k], 4, 8)
            /\ (bpc[w] = "probe" /\ bpc'[w] # "probe") =>
                  /\ bbuffer'[w] = << >> /\ bbufsize'[w] = 0
                  /\ BufIndices(bbuffer[w]) \subseteq probed'
            /\ Len(fbuffer'[w]) < Len(fbuffer[w]) => fpc[w] = "insert"
            /\ Len(bbuffer'[w]) < Len(bbuffer[w]) => bpc[w] = "probe"]_vars

\* A bwdsearch thread is about to probe a table that holds records, with a
\* buffer of threshold + 1 entries.
C17_Witness ==
    \E w \in W :
        /\ bpc[w] = "probe"
        /\ Len(bbuffer[w]) = BufMax + 1
        /\ Cardinality(TableSlots) >= BufMax + 1

---------------------------------------------------------------------------
\* C18: the output_tuple of computefwd is a function of the dof, the guess
\* vectors and the context alone: two executions of the call with the same
\* inputs, whose array fwds held different bytes before the call
\* (memory never written, or what an earlier evaluation left), write the
\* same four bytes.
C18_FwdScratchIndependence ==
    epc \in { "computebwd", "recombine", "haraka512pi", "done" }
        => fwdout[1] = fwdout[2]

\* The two executions have returned the same output_tuple, and the arrays
\* they leave still differ in the bytes that computefwd reads nowhere.
C18_Witness ==
    /\ epc = "computebwd"
    /\ fwdout[1] = fwdout[2]
    /\ fwds[1] # fwds[2]
    /\ fwds[1][3] = fwds[2][3]

---------------------------------------------------------------------------
\* C19: when computefwd on the forward dof and computebwd on the backward
\* dof wrote the same four bytes, the full permutation on the x0 that
\* compute_x0_pix0_from_choices returns for the pair goes through these
\* bytes: the combinations that computefwd takes of lane 2 after subbytes
\* and shiftrows of round 8, and the combinations that computebwd takes of
\* the same lane after mixcolumns, both give the common output_tuple.
C19_MatchSoundness ==
    (epc = "done" /\ fwdout[1] = bwdout[1])
        => /\ fwd_output_tuple(z8) = fwdout[1]
           /\ bwd_output_tuple(mixcolumns(z8)) = bwdout[1]

\* A pair with equal output_tuple has been recombined and permuted.
C19_Witness ==
    /\ epc = "done"
    /\ fwdout[1] = bwdout[1]
    /\ fwd_output_tuple(z8) = bwdout[1]
    /\ guess = 0
    /\ x0s[1] # image

---------------------------------------------------------------------------
\* C20: the two arrays that compute_x0_pix0_from_choices returns satisfy
\* pix0 = haraka512pi(x0), for every pair of dofs, matching or not, and
\* they are the same whatever the arrays held before the call.
C20_RecombinationIsImage ==
    epc = "done"
        => /\ pix0s[1] = image
           /\ x0s[1] = x0s[2]
           /\ pix0s[1] = pix0s[2]

\* A pair whose output_tuple differ has been recombined from two contents
\* of the arrays, and pix0 is the image of x0.
C20_Witness ==
    /\ epc = "done"
    /\ fwdout[1] # bwdout[1]
    /\ pix0s[2] = image
    /\ image = haraka512pi_opt(x0s[2])

---------------------------------------------------------------------------
\* C21: for every state and the round constants of the source, haraka512pi
\* and haraka512pi_opt leave the same 512 bits after the ten rounds: what
\* either one left is what the other one computes from the same state.
C21_PrimitiveEquivalence ==
    /\ applied.op = "haraka512pi" => applied.res = haraka512pi_opt(applied.arg)
    /\ applied.op = "haraka512pi_opt" => applied.res = haraka512pi(applied.arg)

\* haraka512pi_opt has run on a state that is not all zero and has changed it.
C21_Witness ==
    /\ applied.op = "haraka512pi_opt"
    /\ applied.arg # Pattern(0)
    /\ applied.res # applied.arg

---------------------------------------------------------------------------
\* C22: for every block s, round r in 0..9 and lane j in 0..3, invaesenc
\* undoes aesenc and aesenc undoes invaesenc: the inverse of what a call left
\* is the block the call was given.
C22_RoundInvertibility ==
    /\ applied.op = "aesenc" =>
          invaesenc(applied.res, applied.r, applied.j) = applied.arg[applied.j + 1]
    /\ applied.op = "invaesenc" =>
          aesenc(applied.res, applied.r, applied.j) = applied.arg[applied.j + 1]

\* aesenc has run for the last round and lane on a block that it changed.
C22_Witness ==
    /\ applied.op = "aesenc"
    /\ applied.r = 9
    /\ applied.j = 3
    /\ applied.arg # Pattern(0)
    /\ applied.res # applied.arg[4]

---------------------------------------------------------------------------
\* The sixteen columns of four bytes of a state, lane after lane.
Columns(s) == [p \in 0 .. 15 |-> Col(s[(p \div 4) + 1], p % 4)]

\* The state whose column p holds four times the byte p.
Numbered == Lanes4(LAMBDA j : Bytes16(LAMBDA i : 4 * j + (i \div 4)))

\* The wiring of mix512: the column of the state before that the column p of
\* the state after comes from.
Wiring == [p \in 0 .. 15 |-> Columns(mix512(Numbered))[p][1]]

\* C23: mix512 moves the sixteen columns of four bytes by a fixed one-to-one
\* wiring and changes no byte, and invmix512 is its inverse: invmix512 after
\* mix512 and mix512 after invmix512 both give back the state.
C23_LaneMixInvertibility ==
    /\ { Wiring[p] : p \in 0 .. 15 } = 0 .. 15
    /\ applied.op = "mix512" =>
          /\ \A p \in 0 .. 15 :
                Columns(applied.res)[p] = Columns(applied.arg)[Wiring[p]]
          /\ invmix512(applied.res) = applied.arg
    /\ applied.op = "invmix512" => mix512(applied.res) = applied.arg

\* mix512 has run on a state and has moved some column of it.
C23_Witness ==
    /\ applied.op = "mix512"
    /\ applied.res # applied.arg
    /\ \E p \in 0 .. 15 : Wiring[p] # p

---------------------------------------------------------------------------
\* The blocks with one byte x in row p of every column, the other bytes zero.
UnitBlock(x, p) == Bytes16(LAMBDA i : IF i % 4 = p THEN x ELSE 0)

\* C24: mixcolumns and then invmixcolumns give back every column of four
\* bytes, and so do invmixcolumns and then mixcolumns: on the blocks the calls
\* were given, and on every column with a single byte that is not zero.
C24_DiffusionTableConsistency ==
    /\ applied.op = "mixcolumns" =>
          /\ invmixcolumns(applied.res) = applied.arg[applied.j + 1]
          /\ applied.j = 0 =>
                \A x \in 0 .. 255, p \in 0 .. 3 :
                    invmixcolumns(mixcolumns(UnitBlock(x, p))) = UnitBlock(x, p)
    /\ applied.op = "invmixcolumns" =>
          /\ mixcolumns(applied.res) = applied.arg[applied.j + 1]
          /\ applied.j = 0 =>
                \A x \in 0 .. 255, p \in 0 .. 3 :
                    mixcolumns(invmixcolumns(UnitBlock(x, p))) = UnitBlock(x, p)

\* mixcolumns has run on a block whose columns it changed.
C24_Witness ==
    /\ applied.op = "mixcolumns"
    /\ applied.j = 0
    /\ \A c \in 0 .. 3 : Col(applied.res, c) # Col(applied.arg[1], c)

---------------------------------------------------------------------------
\* C25: for every k in 0..39 and every byte position b in 0..15, the byte b
\* in memory order of rc[k], as main builds it, is haraka_rcons_table[k][b];
\* so the accelerated round with the round key rc[4*r + j] leaves what aesenc
\* leaves for round r and lane j.
C25_RoundConstantsAgree ==
    /\ \A k \in 0 .. 39 : \A b \in 0 .. 15 :
          value_to_state(rc(k))[b + 1] = haraka_rcons_table[k + 1][b + 1]
    /\ applied.op = "_mm_aesenc_si128" =>
          applied.res = aesenc(applied.arg[applied.j + 1], applied.r, applied.j)

\* The accelerated round has run with rc[39] as its round key, and has left
\* what aesenc leaves for round 9 and lane 3.
C25_Witness ==
    /\ applied.op = "_mm_aesenc_si128"
    /\ applied.r = 9
    /\ applied.j = 3
    /\ value_to_state(rc(39)) # Bytes16(LAMBDA i : 0)
    /\ applied.res # mixcolumns(sbsr(applied.arg[4]))

---------------------------------------------------------------------------
\* C26: each fused primitive leaves what the primitives it fuses leave one
\* after the other: sbsr is subbytes then shiftrows, mcrc is mixcolumns then
\* xor_rcons, invmcrc is xor_rcons then invmixcolumns, invsbsr is invshiftrows
\* then invsubbytes; so aesenc is substitution, rotation, diffusion, constant
\* injection in this order, and invaesenc undoes them in the reverse order.
C26_FusedEqualsComposition ==
    LET s == applied.arg[applied.j + 1]
        r == applied.r
        j == applied.j
    IN  /\ applied.op = "sbsr" => applied.res = shiftrows(subbytes(s))
        /\ applied.op = "mcrc" => applied.res = xor_rcons(mixcolumns(s), r, j)
        /\ applied.op = "invmcrc" => applied.res = invmixcolumns(xor_rcons(s, r, j))
        /\ applied.op = "invsbsr" => applied.res = invsubbytes(invshiftrows(s))
        /\ applied.op = "aesenc" =>
              applied.res = xor_rcons(mixcolumns(shiftrows(subbytes(s))), r, j)
        /\ applied.op = "invaesenc" =>
              applied.res = invsubbytes(invshiftrows(invmixcolumns(xor_rcons(s, r, j))))

\* sbsr has run on a block in which the rotation moves a byte: the
\* substitution alone leaves another block.
C26_Witness ==
    /\ applied.op = "sbsr"
    /\ applied.res # subbytes(applied.arg[applied.j + 1])

---------------------------------------------------------------------------
\* C29: the output of computebwd depends only on the dof, the guess vectors
\* and the context: two executions that find different contents in the
\* scratch state s, and get the same inputs, write the same four bytes; what
\* is left of the contents found, in the lanes that skip inverse rounds, does
\* not reach the output.
C29_BwdScratchIndependence ==
    epc \in { "recombine", "haraka512pi", "done" } => bwdout[1] = bwdout[2]

\* computebwd has run in two executions whose scratch states still differ on
\* return, outside the lane the output is read from, with equal outputs.
C29_Witness ==
    /\ epc = "recombine"
    /\ bwdout[1] = bwdout[2]
    /\ bwds[1] # bwds[2]
    /\ bwds[1][3] = bwds[2][3]
    /\ bdof # << 0, 0, 0, 0 >>

---------------------------------------------------------------------------
\* C27: inside one run every populatetable thread and every bwdsearch thread,
\* and with it every recombination, has the same match-context, seven zero
\* bytes and then the seed byte of the run, and the same all-zero x3, x4 and
\* x5 guess vectors; and from the start of the first thread until search()
\* is done neither the seed nor the locals of a started thread change.
C27_ConfigurationAgreement ==
    [][/\ \A t \in Threads \ { MainT } :
             ctx'[t] # NoLocals =>
                 /\ ctx'[t].m = << 0, 0, 0, 0, 0, 0, 0, seed' >>
                 /\ ctx'[t].x3 = [i \in 1 .. 20 |-> 0]
                 /\ ctx'[t].x4 = [i \in 1 .. 16 |-> 0]
                 /\ ctx'[t].x5 = [i \in 1 .. 12 |-> 0]
       /\ \A w \in W :
             /\ fpc'[w] # "none" => ctx'[FwdT(w)] # NoLocals
             /\ bpc'[w] # "none" => ctx'[BwdT(w)] # NoLocals
       /\ mainpc # "done" =>
             /\ seed' = seed
             /\ \A t \in Threads \ { MainT } :
                   ctx[t] # NoLocals => ctx'[t] = ctx[t]]_vars

\* In the second run all eight threads have been started and a pair has been
\* recombined.
C27_Witness ==
    /\ seed = FirstSeed + 1
    /\ \A t \in Threads \ { MainT } : ctx[t] # NoLocals
    /\ ctx[FwdT(0)].m[8] = FirstSeed + 1
    /\ ctx[BwdT(N - 1)] = ctx[FwdT(0)]
    /\ recombined # { }

---------------------------------------------------------------------------
\* The positions at which a thread of either phase owns the mutex: between a
\* mtx.lock() that returned and the mtx.unlock() that follows it.
Inside == { FwdT(w) : w \in { v \in W : fpc[v] \in { "pprint", "insert" } } }
          \cup { BwdT(w) : w \in { v \in W : bpc[v] \in { "probe", "cprint", "report" } } }

\* C28: a worker owns the mutex exactly between a lock and the unlock that
\* follows it in its own code, so never while it waits for the mutex again
\* and never once it has returned; in no state short of the end of search()
\* is every thread blocked; and every acquisition is followed by its release,
\* so that in the end no thread owns the mutex.
C28_LockDiscipline ==
    /\ [](mtx = Inside)
    /\ [](mainpc # "done" => ENABLED Next)
    /\ <>[](mtx = { })

\* A bwdsearch thread owns the mutex while it reports a full solution, and
\* another thread waits for the mutex.
C28_Witness ==
    \E w, v \in W :
        /\ bpc[w] = "report"
        /\ fullcond(pix0[w][1])
        /\ mtx = { BwdT(w) }
        /\ bpc[v] \in { "block", "clock", "rlock" }

---------------------------------------------------------------------------
\* C30: a worker writes a block of output, a progress line or a whole report,
\* only while it owns the mutex, and no other thread writes in the same step;
\* search() writes its timing lines only when no worker is running.
C30_ReportAtomicity ==
    [][\A t \in Threads :
          out'[t] # out[t] =>
              /\ \A u \in Threads \ { t } : out'[u] = out[u]
              /\ IF t = MainT
                    THEN \A w \in W : ~FwdRunning(w) /\ ~BwdRunning(w)
                    ELSE mtx = { t }]_vars

\* A bwdsearch thread has written a report of a full solution, banner first,
\* and a populatetable thread a progress line before it.
C30_Witness ==
    \E w, v \in W :
        /\ Len(out[BwdT(w)]) >= 5
        /\ \E k \in 1 .. Len(out[BwdT(w)]) : out[BwdT(w)][k] = << "FULL SOLUTION" >>
        /\ out[FwdT(v)] # << >>
        /\ out[MainT] # << >>

====
